---- MODULE Spec2Model ----
(***************************************************************************)
(* sprig-config: the ConfigLoader import resolver (config_loader.py) and   *)
(* the process-wide ConfigSingleton cache (config_singleton.py).           *)
(*                                                                         *)
(* A configuration tree is a tagged value:                                 *)
(*   [t |-> "map", ks, m]  a dict: ks its keys in insertion order, m the   *)
(*                         key -> value function                           *)
(*   [t |-> "seq", s]      a list                                          *)
(*   [t |-> "str", v]      a string scalar                                 *)
(*   [t |-> "ref", ...]    a string scalar spelled as a path (what an      *)
(*                         `imports:` entry holds), kept split into its    *)
(*                         directory segments, stem and extension          *)
(*   [t |-> "bool", b]     a boolean scalar                                *)
(* A resolved file path is [dirs, stem, ext] with dirs the absolute,       *)
(* normalised directory segments.                                          *)
(***************************************************************************)
EXTENDS Naturals, Integers, Sequences, FiniteSets, TLC

VARIABLES
    fs,        \* the files on disk: resolved path -> parsed document
    ldr,       \* one ConfigLoader: its fields, load()'s locals and position
    cache,     \* ConfigSingleton._cache: key -> Config instance
    lock,      \* ConfigSingleton._lock: 0 when free, else the holding thread
    thr,       \* each thread's call in progress and its position in it
    heap,      \* number of Config instances allocated so far
    hist,      \* the calls that returned, in order: what each caller observed
    mrg,       \* two trees and what deep_merge made of them
    sec        \* the environment, one LazySecret and what get() did

vars == <<fs, ldr, cache, lock, thr, heap, hist, mrg, sec>>

----------------------------------------------------------------------------
(* Trees *)

Str(s) == [t |-> "str", v |-> s]
Bool(b) == [t |-> "bool", b |-> b]
Lst(s) == [t |-> "seq", s |-> s]
Ref(abs, dirs, stem, ext) ==
    [t |-> "ref", abs |-> abs, dirs |-> dirs, stem |-> stem, ext |-> ext]
None == [t |-> "none"]

\* A dict from a sequence of <<key, value>> pairs, in that order.
Map(kvs) ==
    [t |-> "map",
     ks |-> [i \in 1..Len(kvs) |-> kvs[i][1]],
     m |-> [k \in {kvs[i][1] : i \in 1..Len(kvs)} |->
               kvs[CHOOSE i \in 1..Len(kvs) : kvs[i][1] = k][2]]]
EmptyMap == Map(<<>>)

IsDict(v) == v.t = "map"
IsList(v) == v.t = "seq"
HasKey(d, k) == k \in DOMAIN d.m

\* d[k] = v: an existing key keeps its place, a new key goes last.
Put(d, k, v) ==
    [t |-> "map",
     ks |-> IF k \in DOMAIN d.m THEN d.ks ELSE Append(d.ks, k),
     m |-> [x \in DOMAIN d.m \cup {k} |-> IF x = k THEN v ELSE d.m[x]]]

\* del d[k]
Del(d, k) ==
    [t |-> "map",
     ks |-> SelectSeq(d.ks, LAMBDA x : x # k),
     m |-> [x \in DOMAIN d.m \ {k} |-> d.m[x]]]

\* d.setdefault(k, v)
\* A setdefault that stores the default over what is there
SetDefault_overwrite(d, k, v) == Put(d, k, v)
SetDefault(d, k, v) == IF HasKey(d, k) THEN d ELSE Put(d, k, v)

----------------------------------------------------------------------------
(* deep_merge *)

RECURSIVE deep_merge(_, _)
RECURSIVE MergeItems(_, _, _)

\* A merge that combines two lists element by element instead of replacing
\* the base's list
MergeElems(l1, l2) ==
    [n \in 1..(IF Len(l1) > Len(l2) THEN Len(l1) ELSE Len(l2)) |->
        IF n > Len(l2) THEN l1[n]
        ELSE IF n <= Len(l1) /\ l1[n].t = "map" /\ l2[n].t = "map"
             THEN deep_merge(l1[n], l2[n])
             ELSE l2[n]]
MergeItems_elementwise(base, override, i) ==
    IF i > Len(override.ks) THEN base
    ELSE LET key == override.ks[i]
             value == override.m[key]
         IN IF key \in DOMAIN base.m /\ base.m[key].t = "map" /\ value.t = "map"
            THEN MergeItems(Put(base, key, deep_merge(base.m[key], value)),
                            override, i + 1)
            ELSE IF key \in DOMAIN base.m /\ base.m[key].t = "seq"
                      /\ value.t = "seq"
                 THEN MergeItems(Put(base, key,
                                     Lst(MergeElems(base.m[key].s, value.s))),
                                 override, i + 1)
                 ELSE MergeItems(Put(base, key, value), override, i + 1)

\* A merge that never lets a value that is no mapping replace a mapping
MergeItems_keep_sections(base, override, i) ==
    IF i > Len(override.ks) THEN base
    ELSE LET key == override.ks[i]
             value == override.m[key]
         IN IF key \in DOMAIN base.m /\ base.m[key].t = "map"
            THEN IF value.t = "map"
                 THEN MergeItems(Put(base, key, deep_merge(base.m[key], value)),
                                 override, i + 1)
                 ELSE MergeItems(base, override, i + 1)
            ELSE MergeItems(Put(base, key, value), override, i + 1)

\* A merge that appends the override's list to the base's list
MergeItems_append(base, override, i) ==
    IF i > Len(override.ks) THEN base
    ELSE LET key == override.ks[i]
             value == override.m[key]
         IN IF key \in DOMAIN base.m /\ base.m[key].t = "map" /\ value.t = "map"
            THEN MergeItems(Put(base, key, deep_merge(base.m[key], value)),
                            override, i + 1)
            ELSE IF key \in DOMAIN base.m /\ base.m[key].t = "seq"
                      /\ value.t = "seq"
                 THEN MergeItems(Put(base, key, Lst(base.m[key].s \o value.s)),
                                 override, i + 1)
                 ELSE MergeItems(Put(base, key, value), override, i + 1)

\* loader.py deep_merge: the loop over override.items(), from item i on.
MergeItems(base, override, i) ==
    IF i > Len(override.ks) THEN base
    ELSE LET key == override.ks[i]
             value == override.m[key]
         IN IF HasKey(base, key) /\ IsDict(base.m[key]) /\ IsDict(value)
            THEN MergeItems(Put(base, key, deep_merge(base.m[key], value)),
                            override, i + 1)
            ELSE MergeItems(Put(base, key, value), override, i + 1)

deep_merge(base, override) == MergeItems(base, override, 1)

\* sprigconfig/deepmerge.py is not among the sources; config_loader.py calls
\* its deep_merge(base, override, suppress=...).  Modelled from the Merge
\* Engine contract: recurse where both sides hold mappings, otherwise the
\* override's value replaces the base's; `suppress` only silences warnings.
deepmerge_deep_merge(base, override, suppress) == deep_merge(base, override)

\* The sections of `override` that lack keys the same section of `base`
\* has, counted down the mappings both trees hold: the places where the
\* merge finds a partial override
RECURSIVE PartialOverrides(_, _)
PartialOverrides(base, override) ==
    LET both == {key \in DOMAIN override.m :
                    /\ key \in DOMAIN base.m
                    /\ base.m[key].t = "map" /\ override.m[key].t = "map"}
        Count[S \in SUBSET both] ==
            IF S = {} THEN 0
            ELSE LET key == CHOOSE k \in S : TRUE
                 IN (IF DOMAIN base.m[key].m \ DOMAIN override.m[key].m # {}
                     THEN 1 ELSE 0)
                    + PartialOverrides(base.m[key], override.m[key])
                    + Count[S \ {key}]
    IN Count[both]

\* The partial-override warnings deep_merge(base, override, suppress) logs
merge_warnings(base, override, suppress) ==
    IF suppress THEN 0 ELSE PartialOverrides(base, override)

----------------------------------------------------------------------------
(* Paths *)

Ext == "yml"
NoErr == "none"

RECURSIVE Normalize(_, _)
\* Path.resolve() on the segments `rest` appended to the absolute `acc`.
Normalize(acc, rest) ==
    IF rest = <<>> THEN acc
    ELSE IF Head(rest) = ".."
         THEN Normalize(IF acc = <<>> THEN acc ELSE SubSeq(acc, 1, Len(acc) - 1),
                        Tail(rest))
         ELSE IF Head(rest) = "." THEN Normalize(acc, Tail(rest))
              ELSE Normalize(Append(acc, Head(rest)), Tail(rest))

IsPrefix(p, s) == Len(p) <= Len(s) /\ SubSeq(s, 1, Len(p)) = p

\* resolved_path.relative_to(config_dir_resolved) does not raise
RelativeTo(path, dir) == IsPrefix(dir, path.dirs)

\* (config_dir / name).resolve(): `name` is joined to the directory unless
\* it is absolute, then normalised.
ResolveIn(config_dir, name) ==
    [dirs |-> IF name.abs THEN Normalize(<<>>, name.dirs)
              ELSE Normalize(<<>>, config_dir \o name.dirs),
     stem |-> name.stem,
     ext |-> name.ext]

\* _resolve_import without its relative_to() check
resolve_import_unchecked(L, import_key) ==
    LET key == IF import_key.ext = "" THEN [import_key EXCEPT !.ext = Ext]
               ELSE import_key
    IN [ok |-> TRUE, path |-> ResolveIn(L.config_dir, key)]

\* ConfigLoader._resolve_import: ok = FALSE is the ConfigLoadError raised
\* for a path outside config_dir.
resolve_import(L, import_key) ==
    LET key == IF import_key.ext = "" THEN [import_key EXCEPT !.ext = Ext]
               ELSE import_key
        resolved_path == ResolveIn(L.config_dir, key)
        config_dir_resolved == Normalize(<<>>, L.config_dir)
    IN [ok |-> RelativeTo(resolved_path, config_dir_resolved),
        path |-> resolved_path]

Exists(files, path) == path \in DOMAIN files

----------------------------------------------------------------------------
(* ConfigLoader: the helpers of load().  L is the loader object:           *)
(* config_dir, profile, merge_trace, import_trace, seen_imports, order,    *)
(* with load()'s locals and err, the kind of the exception being raised    *)
(* (NoErr while none is).                                                  *)

\* An exception on its way out of a call
Exc(kind) == [t |-> "raise", kind |-> kind]
IsExc(v) == v.t = "raise"

\* Python truthiness of a tree value
Truthy(v) ==
    CASE v.t = "bool" -> v.b
      [] v.t = "map" -> v.ks # <<>>
      [] v.t = "seq" -> v.s # <<>>
      [] v.t = "str" -> v.v # ""
      [] OTHER -> TRUE

\* The content of a file the parser of the format rejects
Malformed == [t |-> "malformed"]

\* ConfigLoader._load_file: `data or {}`, or the ConfigLoadError made of the
\* parser's exception
load_file(files, L, path) ==
    IF ~Exists(files, path) THEN [L |-> L, data |-> EmptyMap]
    ELSE [L |-> [L EXCEPT !.merge_trace = Append(@, path)],
          data |-> IF files[path] = Malformed THEN Exc("parse")
                   ELSE IF Truthy(files[path]) THEN files[path]
                        ELSE EmptyMap]

\* _record_import without line 278: the counter is never advanced
record_import_unordered(L, file, imported_by, import_key, depth) ==
    [L EXCEPT !.import_trace =
                  Append(@, [file |-> file, imported_by |-> imported_by,
                             import_key |-> import_key, depth |-> depth,
                             order |-> L.order])]

\* ConfigLoader._record_import
record_import(L, file, imported_by, import_key, depth) ==
    [L EXCEPT !.import_trace =
                  Append(@, [file |-> file, imported_by |-> imported_by,
                             import_key |-> import_key, depth |-> depth,
                             order |-> L.order]),
              !.order = @ + 1]

\* A call of _apply_imports_recursive(node, parent_file=, depth=) in
\* progress.  ret says what the caller does with the node once the call
\* returns: "import" (line 334, merge it into the caller's node), "child"
\* (line 344, it is the caller's value under keys[i]), "item" (line 353, it
\* is element j of the caller's list under keys[i]) or "root" (load() made
\* the call).  stage is the position in the body; imports_list, keys, i, j
\* and imp are its locals.
Frame(node, parent_file, depth, ret) ==
    [node |-> node, parent_file |-> parent_file, depth |-> depth, ret |-> ret,
     stage |-> "enter", imports_list |-> <<>>, keys |-> <<>>, i |-> 1, j |-> 1,
     imp |-> None]

Top(L) == L.stack[Len(L.stack)]
SetTop(L, f) == [L EXCEPT !.stack[Len(L.stack)] = f]
Push(L, f) == [L EXCEPT !.stack = Append(@, f)]

\* An exception leaves load(): the frames are gone, the object's fields stay.
Raise(L, kind) == [L EXCEPT !.pc = "raised", !.err = kind, !.stack = <<>>]

\* The caller's frame c once a call it made returned `result`.
Resume(c, ret, result, suppress) ==
    CASE ret = "import" ->
           [c EXCEPT !.node = deepmerge_deep_merge(c.node, result, suppress),
                     !.stage = "imports", !.i = @ + 1]
      [] ret = "child" ->
           [c EXCEPT !.node = Put(c.node, c.keys[c.i], result), !.i = @ + 1]
      [] ret = "item" ->
           [c EXCEPT !.node = Put(c.node, c.keys[c.i],
                                  Lst([c.node.m[c.keys[c.i]].s EXCEPT
                                          ![c.j] = result])),
                     !.j = @ + 1]

\* A return that merges an imported file into the document the walk
\* started from instead of into the mapping that holds the directive
return_node_into_root(L) ==
    LET n == Len(L.stack)
        top == L.stack[n]
    IN IF n = 1
       THEN IF L.pc = "base_imports"
            THEN [L EXCEPT !.stack = <<>>, !.base = top.node,
                           !.pc = "load_profile"]
            ELSE [L EXCEPT !.stack = <<>>, !.profile_data = top.node,
                           !.pc = "merge"]
       ELSE IF top.ret = "import"
            THEN LET c == L.stack[n - 1]
                     st == Append(SubSeq(L.stack, 1, n - 2),
                                  [c EXCEPT !.stage = "imports", !.i = @ + 1])
                 IN [L EXCEPT !.stack =
                        [st EXCEPT ![1].node =
                            deepmerge_deep_merge(@, top.node, L.suppress)],
                              !.warnings = @ + merge_warnings(
                                  st[1].node, top.node, L.suppress)]
            ELSE [L EXCEPT !.stack =
                     Append(SubSeq(L.stack, 1, n - 2),
                            Resume(L.stack[n - 1], top.ret, top.node,
                                   L.suppress))]

\* The top call returns: its node, mutated in place, is what the caller
\* holds.  The call load() made ends the section of load() that made it.
return_node(L) ==
    LET n == Len(L.stack)
        top == L.stack[n]
    IN IF n = 1
       THEN IF L.pc = "base_imports"
            THEN [L EXCEPT !.stack = <<>>, !.base = top.node,
                           !.pc = "load_profile"]
            ELSE [L EXCEPT !.stack = <<>>, !.profile_data = top.node,
                           !.pc = "merge"]
       ELSE [L EXCEPT !.stack =
                Append(SubSeq(L.stack, 1, n - 2),
                       Resume(L.stack[n - 1], top.ret, top.node, L.suppress)),
                      !.warnings =
                          IF top.ret = "import"
                          THEN @ + merge_warnings(L.stack[n - 1].node,
                                                  top.node, L.suppress)
                          ELSE @]

\* _apply_imports_recursive, lines 296-305: entry
enter_node(L) ==
    LET f == Top(L)
    IN IF ~IsDict(f.node) THEN return_node(L)
       ELSE IF HasKey(f.node, "imports")
            THEN IF IsList(f.node.m["imports"])
                 THEN SetTop(L, [f EXCEPT !.stage = "imports",
                                          !.imports_list = f.node.m["imports"].s,
                                          !.i = 1])
                 ELSE SetTop(L, [f EXCEPT !.node = Del(f.node, "imports"),
                                          !.stage = "children",
                                          !.keys = Del(f.node, "imports").ks,
                                          !.i = 1])
            ELSE SetTop(L, [f EXCEPT !.stage = "children", !.keys = f.node.ks,
                                     !.i = 1])

\* The import loop without the check against the files already seen
next_import_unseen(L) ==
    LET f == Top(L)
    IN IF f.i > Len(f.imports_list)
       THEN SetTop(L, [f EXCEPT !.node = Del(f.node, "imports"),
                                !.stage = "children",
                                !.keys = Del(f.node, "imports").ks,
                                !.i = 1])
       ELSE LET import_key == f.imports_list[f.i]
                imp == resolve_import(L, import_key)
            IN IF ~imp.ok THEN Raise(L, "traversal")
               ELSE LET L1 == [L EXCEPT !.seen_imports = @ \cup {imp.path}]
                        L2 == record_import(L1, imp.path, f.parent_file,
                                            import_key, f.depth + 1)
                    IN SetTop(L2, [f EXCEPT !.stage = "load", !.imp = imp.path])

\* The import loop recording the reference with the extension appended to
\* it, as _resolve_import spells it, instead of as the file wrote it
next_import_key_resolved(L) ==
    LET f == Top(L)
    IN IF f.i > Len(f.imports_list)
       THEN SetTop(L, [f EXCEPT !.node = Del(f.node, "imports"),
                                !.stage = "children",
                                !.keys = Del(f.node, "imports").ks,
                                !.i = 1])
       ELSE LET import_key == f.imports_list[f.i]
                imp == resolve_import(L, import_key)
            IN IF ~imp.ok THEN Raise(L, "traversal")
               ELSE IF imp.path \in L.seen_imports THEN Raise(L, "circular")
               ELSE LET L1 == [L EXCEPT !.seen_imports = @ \cup {imp.path}]
                        L2 == record_import(L1, imp.path, f.parent_file,
                                            [import_key EXCEPT !.ext = Ext],
                                            f.depth + 1)
                    IN SetTop(L2, [f EXCEPT !.stage = "load", !.imp = imp.path])

\* The import loop with a check for true cycles only: a reference is
\* refused when it names a file whose imports are being resolved
next_import_on_path(L) ==
    LET f == Top(L)
    IN IF f.i > Len(f.imports_list)
       THEN SetTop(L, [f EXCEPT !.node = Del(f.node, "imports"),
                                !.stage = "children",
                                !.keys = Del(f.node, "imports").ks,
                                !.i = 1])
       ELSE LET import_key == f.imports_list[f.i]
                imp == resolve_import(L, import_key)
            IN IF ~imp.ok THEN Raise(L, "traversal")
               ELSE IF imp.path \in {L.stack[n].parent_file :
                                        n \in 1..Len(L.stack)}
                    THEN Raise(L, "circular")
               ELSE LET L1 == [L EXCEPT !.seen_imports = @ \cup {imp.path}]
                        L2 == record_import(L1, imp.path, f.parent_file,
                                            import_key, f.depth + 1)
                    IN SetTop(L2, [f EXCEPT !.stage = "load", !.imp = imp.path])

\* lines 306-321: the next entry of the imports list is resolved, checked
\* against the files seen and recorded; line 337 once the list is done.
next_import(L) ==
    LET f == Top(L)
    IN IF f.i > Len(f.imports_list)
       THEN SetTop(L, [f EXCEPT !.node = Del(f.node, "imports"),
                                !.stage = "children",
                                !.keys = Del(f.node, "imports").ks,
                                !.i = 1])
       ELSE LET import_key == f.imports_list[f.i]
                imp == resolve_import(L, import_key)
            IN IF ~imp.ok THEN Raise(L, "traversal")
               ELSE IF imp.path \in L.seen_imports THEN Raise(L, "circular")
               ELSE LET L1 == [L EXCEPT !.seen_imports = @ \cup {imp.path}]
                        L2 == record_import(L1, imp.path, f.parent_file,
                                            import_key, f.depth + 1)
                    IN SetTop(L2, [f EXCEPT !.stage = "load", !.imp = imp.path])

\* lines 323-331: the recorded file is loaded and its own imports resolved
\* by a recursive call
load_import(files, L) ==
    LET f == Top(L)
        ld == load_file(files, L, f.imp)
    IN IF IsExc(ld.data) THEN Raise(ld.L, ld.data.kind)
       ELSE Push(ld.L, Frame(ld.data, f.imp, f.depth + 1, "import"))

\* lines 342-350: the next item of the snapshot of node.items()
next_child(L) ==
    LET f == Top(L)
    IN IF f.i > Len(f.keys) THEN return_node(L)
       ELSE LET value == f.node.m[f.keys[f.i]]
            IN IF IsDict(value)
               THEN Push(L, Frame(value, f.parent_file, f.depth, "child"))
               ELSE IF IsList(value)
                    THEN SetTop(L, [f EXCEPT !.stage = "items", !.j = 1])
                    ELSE SetTop(L, [f EXCEPT !.i = @ + 1])

\* lines 351-358: the next element of a list value
next_item(L) ==
    LET f == Top(L)
        items == f.node.m[f.keys[f.i]].s
    IN IF f.j > Len(items)
       THEN SetTop(L, [f EXCEPT !.stage = "children", !.i = @ + 1])
       ELSE IF IsDict(items[f.j])
            THEN Push(L, Frame(items[f.j], f.parent_file, f.depth, "item"))
            ELSE SetTop(L, [f EXCEPT !.j = @ + 1])

\* ConfigLoader._apply_imports_recursive: one step of the call on top
apply_imports_recursive(files, L) ==
    LET stage == Top(L).stage
    IN CASE stage = "enter" -> enter_node(L)
         [] stage = "imports" -> next_import(L)
         [] stage = "load" -> load_import(files, L)
         [] stage = "children" -> next_child(L)
         [] stage = "items" -> next_item(L)

----------------------------------------------------------------------------
(* ConfigLoader.load(), one operator per numbered section of its body.     *)
(* Each takes the loader at that position and gives it at the next; a      *)
(* raised exception ends the call at pc = "raised".                        *)

PathV(p) == [t |-> "path", dirs |-> p.dirs, stem |-> p.stem, ext |-> p.ext]
IntV(n) == [t |-> "int", n |-> n]

\* The ciphertext tokens the files and the secrets of the model hold, and
\* the strings value.startswith("ENC(") and value.endswith(")") holds of
Tokens == {"tok1", "tok2", "forged", ""}
Enc(token) == "ENC(" \o token \o ")"
IsEncString(value) == value \in {Enc(token) : token \in Tokens}
\* enc_value[4:-1]
StripEnc(enc_value) == CHOOSE token \in Tokens : Enc(token) = enc_value

\* LazySecret.__init__(self, enc_value): the object with its two slots
LazySecret(enc_value) ==
    IF ~IsEncString(enc_value) THEN Exc("ValueError")
    ELSE [t |-> "secret", encrypted_value |-> StripEnc(enc_value),
          decrypted_value |-> None]

\* The call LazySecret(enc_value, **kwargs): __init__ takes enc_value and
\* nothing else, so any keyword argument is a TypeError
new_LazySecret(enc_value, kwargs) ==
    IF kwargs # {} THEN Exc("TypeError") ELSE LazySecret(enc_value)

\* cryptography.fernet as LazySecret uses it.  The keys Fernet accepts (32
\* url-safe base64-encoded bytes), and for each token that was made by
\* Fernet(key).encrypt(plain) its key and its plaintext; any other token
\* (forged, cut short, empty) authenticates under no key
FernetKeys == {"k1", "k2"}
Made ==
    [token \in {"tok1", "tok2"} |->
        IF token = "tok1" THEN [key |-> "k1", plain |-> "hello"]
        ELSE [key |-> "k2", plain |-> ""]]

\* Fernet(key): ValueError unless the key is well-formed
Fernet(key) ==
    IF key \in FernetKeys THEN [t |-> "fernet", key |-> key]
    ELSE Exc("ValueError")

\* Fernet.decrypt(token): the plaintext, or InvalidToken
fernet_decrypt(fernet, token) ==
    IF token \in DOMAIN Made /\ Made[token].key = fernet.key
    THEN Str(Made[token].plain)
    ELSE Exc("InvalidToken")

\* The outcome of a call on a LazySecret: the object afterwards, what the
\* call returned or raised, and what it did on the way: "getenv" when it
\* read APP_SECRET_KEY, "decrypt" when it called Fernet.decrypt
Outcome(secret, out, did) == [secret |-> secret, out |-> out, did |-> did]

\* A _decrypt that does not look at the cached plaintext
decrypt_uncached(secret, key) ==
    IF key = None \/ key.v = ""
    THEN Outcome(secret, Exc("ConfigLoadError"), {"getenv"})
    ELSE LET fernet == Fernet(key.v)
         IN IF IsExc(fernet) THEN Outcome(secret, fernet, {"getenv"})
            ELSE LET plain == fernet_decrypt(fernet, secret.encrypted_value)
                 IN IF IsExc(plain)
                    THEN Outcome(secret, plain, {"getenv", "decrypt"})
                    ELSE Outcome([secret EXCEPT !.decrypted_value = plain],
                                 plain, {"getenv", "decrypt"})

\* LazySecret._decrypt, with `key` what os.getenv("APP_SECRET_KEY") gives:
\* None when the variable is unset, else its string
decrypt(secret, key) ==
    IF secret.decrypted_value # None
    THEN Outcome(secret, secret.decrypted_value, {})
    ELSE IF key = None \/ key.v = ""
         THEN Outcome(secret, Exc("ConfigLoadError"), {"getenv"})
         ELSE LET fernet == Fernet(key.v)
              IN IF IsExc(fernet) THEN Outcome(secret, fernet, {"getenv"})
                 ELSE LET plain == fernet_decrypt(fernet,
                                                  secret.encrypted_value)
                      IN IF IsExc(plain)
                         THEN Outcome(secret, plain, {"getenv", "decrypt"})
                         ELSE Outcome([secret EXCEPT
                                          !.decrypted_value = plain],
                                      plain, {"getenv", "decrypt"})

\* LazySecret.get
get(secret, key) == decrypt(secret, key)

\* LazySecret.__str__
str(secret, key) == decrypt(secret, key)

\* Config.to_dict(reveal_secrets) at a LazySecret: the plaintext when asked
\* to reveal, else the marker "<LazySecret>"
to_dict(secret, key, reveal_secrets) ==
    IF reveal_secrets THEN get(secret, key)
    ELSE Outcome(secret, Str("<LazySecret>"), {})

\* cli._extract_data_for_dump at a LazySecret of the config: to_dict first,
\* then walk(), which redacts or reveals a LazySecret that is still there
extract_data_for_dump(secret, key, reveal_secrets) ==
    LET raw == to_dict(secret, key, reveal_secrets)
    IN IF IsExc(raw.out) \/ raw.out.t # "secret" THEN raw
       ELSE IF reveal_secrets THEN get(raw.secret, key)
            ELSE Outcome(raw.secret, Str("ENC(**REDACTED**)"), raw.did)

\* LazySecret.zeroize
zeroize(secret) ==
    IF secret.decrypted_value # None
    THEN [secret EXCEPT !.decrypted_value = None]
    ELSE secret

\* A string the loader builds itself, spelled as a path relative to nothing.
FileName(stem, ext) == Ref(FALSE, <<>>, stem, ext)

\* ConfigLoader.__init__
NewLoader(config_dir, profile) ==
    [pc |-> "load_base", config_dir |-> config_dir, profile |-> profile,
     merge_trace |-> <<>>, import_trace |-> <<>>, seen_imports |-> {},
     order |-> 0, err |-> NoErr, stack |-> <<>>,
     root_file |-> None, base |-> EmptyMap, profile_data |-> EmptyMap,
     suppress |-> FALSE, merged |-> EmptyMap, warnings |-> 0]

\* d.get(k, False), as a truth value
GetFlag(d, k) == IF HasKey(d, k) THEN Truthy(d.m[k]) ELSE FALSE

\* load(), lines 100-123, up to the call of _apply_imports_recursive
load_base(files, L) ==
    LET base_file == ResolveIn(L.config_dir, FileName("application", Ext))
        ld == load_file(files, L, base_file)
        rec == record_import(ld.L, base_file, None, None, 0)
    IN IF IsExc(ld.data) THEN Raise(ld.L, ld.data.kind)
       ELSE IF ~IsDict(ld.data) THEN Raise(rec, "AttributeError")
       ELSE [rec EXCEPT !.pc = "base_imports", !.root_file = base_file,
                   !.base = ld.data,
                   !.suppress = GetFlag(ld.data, "suppress_config_merge_warnings"),
                   !.stack = <<Frame(ld.data, base_file, 0, "root")>>]

\* A load_profile in which the overlay's flag, when the overlay has one,
\* takes the place of the base file's
load_profile_flag_replaces(files, L) ==
    LET name == FileName("application-" \o L.profile, Ext)
        profile_file == ResolveIn(L.config_dir, name)
    IN IF Exists(files, profile_file)
       THEN LET ld == load_file(files, L, profile_file)
                rec == record_import(ld.L, profile_file, L.root_file, name, 1)
            IN IF IsExc(ld.data) THEN Raise(ld.L, ld.data.kind)
               ELSE IF ~IsDict(ld.data) THEN Raise(rec, "AttributeError")
               ELSE
               [rec EXCEPT !.pc = "profile_imports", !.profile_data = ld.data,
                           !.suppress =
                               IF HasKey(ld.data, "suppress_config_merge_warnings")
                               THEN GetFlag(ld.data, "suppress_config_merge_warnings")
                               ELSE L.suppress,
                           !.stack = <<Frame(ld.data, profile_file, 1, "root")>>]
       ELSE [L EXCEPT !.pc = "merge", !.profile_data = EmptyMap]

\* A load_profile that resolves the overlay's imports as if the base file
\* held them
load_profile_under_root(files, L) ==
    LET name == FileName("application-" \o L.profile, Ext)
        profile_file == ResolveIn(L.config_dir, name)
    IN IF Exists(files, profile_file)
       THEN LET ld == load_file(files, L, profile_file)
                rec == record_import(ld.L, profile_file, L.root_file, name, 1)
            IN IF IsExc(ld.data) THEN Raise(ld.L, ld.data.kind)
               ELSE IF ~IsDict(ld.data) THEN Raise(rec, "AttributeError")
               ELSE
               [rec EXCEPT !.pc = "profile_imports", !.profile_data = ld.data,
                           !.suppress = L.suppress \/
                               GetFlag(ld.data, "suppress_config_merge_warnings"),
                           !.stack = <<Frame(ld.data, L.root_file, 0, "root")>>]
       ELSE [L EXCEPT !.pc = "merge", !.profile_data = EmptyMap]

\* load(), lines 128-155, up to the call of _apply_imports_recursive
load_profile(files, L) ==
    LET name == FileName("application-" \o L.profile, Ext)
        profile_file == ResolveIn(L.config_dir, name)
    IN IF Exists(files, profile_file)
       THEN LET ld == load_file(files, L, profile_file)
                rec == record_import(ld.L, profile_file, L.root_file, name, 1)
            IN IF IsExc(ld.data) THEN Raise(ld.L, ld.data.kind)
               ELSE IF ~IsDict(ld.data) THEN Raise(rec, "AttributeError")
               ELSE
               [rec EXCEPT !.pc = "profile_imports", !.profile_data = ld.data,
                           !.suppress = L.suppress \/
                               GetFlag(ld.data, "suppress_config_merge_warnings"),
                           !.stack = <<Frame(ld.data, profile_file, 1, "root")>>]
       ELSE [L EXCEPT !.pc = "merge", !.profile_data = EmptyMap]

\* load(), line 160
merge(L) ==
    [L EXCEPT !.pc = "normalize",
              !.merged = deepmerge_deep_merge(L.base, L.profile_data, L.suppress),
              !.warnings = @ + merge_warnings(L.base, L.profile_data,
                                              L.suppress)]

\* load(), line 165: merged.setdefault("app", {})["profile"] = self.profile
normalize(L) ==
    LET merged == SetDefault(L.merged, "app", EmptyMap)
        app == merged.m["app"]
    IN IF ~IsDict(app) THEN Raise(L, "TypeError")
       ELSE [L EXCEPT !.pc = "inject_metadata",
                      !.merged = Put(merged, "app",
                                     Put(app, "profile", Str(L.profile)))]

\* An ImportEvent as the dict _record_import appends
EventDict(e) ==
    Map(<< <<"file", PathV(e.file)>>,
           <<"imported_by", IF e.imported_by = None THEN None
                            ELSE PathV(e.imported_by)>>,
           <<"import_key", e.import_key>>,
           <<"depth", IntV(e.depth)>>,
           <<"order", IntV(e.order)>> >>)

\* _inject_metadata recording the profile only when an overlay was loaded
inject_metadata_if_overlay(L) ==
    LET runtime_profile == IF L.profile # "" THEN L.profile ELSE "default"
        merged == SetDefault(L.merged, "sprigconfig", EmptyMap)
        node == merged.m["sprigconfig"]
    IN IF ~IsDict(node) THEN Raise(L, "AttributeError")
       ELSE LET node1 == SetDefault(node, "_meta", EmptyMap)
                meta == node1.m["_meta"]
            IN IF ~IsDict(meta) THEN Raise(L, "AttributeError")
               ELSE LET m1 == IF L.profile_data = EmptyMap THEN meta
                              ELSE SetDefault(meta, "profile",
                                              Str(runtime_profile))
                        m2 == SetDefault(m1, "sources",
                                  Lst([i \in 1..Len(L.merge_trace) |->
                                          PathV(L.merge_trace[i])]))
                        m3 == SetDefault(m2, "import_trace",
                                  Lst([i \in 1..Len(L.import_trace) |->
                                          EventDict(L.import_trace[i])]))
                    IN [L EXCEPT !.pc = "inject_secrets",
                                 !.merged = Put(merged, "sprigconfig",
                                                Put(node1, "_meta", m3))]

\* ConfigLoader._inject_metadata
inject_metadata(L) ==
    LET runtime_profile == IF L.profile # "" THEN L.profile ELSE "default"
        merged == SetDefault(L.merged, "sprigconfig", EmptyMap)
        node == merged.m["sprigconfig"]
    IN IF ~IsDict(node) THEN Raise(L, "AttributeError")
       ELSE LET node1 == SetDefault(node, "_meta", EmptyMap)
                meta == node1.m["_meta"]
            IN IF ~IsDict(meta) THEN Raise(L, "AttributeError")
               ELSE LET m1 == SetDefault(meta, "profile", Str(runtime_profile))
                        m2 == SetDefault(m1, "sources",
                                  Lst([i \in 1..Len(L.merge_trace) |->
                                          PathV(L.merge_trace[i])]))
                        m3 == SetDefault(m2, "import_trace",
                                  Lst([i \in 1..Len(L.import_trace) |->
                                          EventDict(L.import_trace[i])]))
                    IN [L EXCEPT !.pc = "inject_secrets",
                                 !.merged = Put(merged, "sprigconfig",
                                                Put(node1, "_meta", m3))]

\* isinstance(value, str) and value.startswith("ENC(") and
\* value.endswith(")")
IsEnc(v) == v.t = "str" /\ IsEncString(v.v)

RECURSIVE inject_secrets(_)
RECURSIVE SecretItems(_, _, _)
RECURSIVE SecretElems(_, _)

\* _inject_secrets, lines 371-375: the elements of a list value, from i on;
\* the list once they are all done, or the exception a call raised
SecretElems(items, i) ==
    IF i > Len(items) THEN Lst(items)
    ELSE LET item == items[i]
         IN IF IsEnc(item)
            THEN LET secret == new_LazySecret(item.v, {"key"})
                 IN IF IsExc(secret) THEN secret
                    ELSE SecretElems([items EXCEPT ![i] = secret], i + 1)
            ELSE IF IsDict(item)
                 THEN LET inner == inject_secrets(item)
                      IN IF IsExc(inner) THEN inner
                         ELSE SecretElems([items EXCEPT ![i] = inner], i + 1)
                 ELSE SecretElems(items, i + 1)

\* _inject_secrets, lines 365-375: the items of `data`, from key i on
SecretItems(data, keys, i) ==
    IF i > Len(keys) THEN data
    ELSE LET key == keys[i]
             value == data.m[key]
         IN IF IsEnc(value)
            THEN LET secret == new_LazySecret(value.v, {"key"})
                 IN IF IsExc(secret) THEN secret
                    ELSE SecretItems(Put(data, key, secret), keys, i + 1)
            ELSE IF IsDict(value)
                 THEN LET inner == inject_secrets(value)
                      IN IF IsExc(inner) THEN inner
                         ELSE SecretItems(Put(data, key, inner), keys, i + 1)
                 ELSE IF IsList(value)
                      THEN LET elems == SecretElems(value.s, 1)
                           IN IF IsExc(elems) THEN elems
                              ELSE SecretItems(Put(data, key, elems), keys, i + 1)
                      ELSE SecretItems(data, keys, i + 1)

\* ConfigLoader._inject_secrets
inject_secrets(data) == SecretItems(data, data.ks, 1)

\* load(), lines 175-177
wrap_secrets(L) ==
    LET wrapped == inject_secrets(L.merged)
    IN IF IsExc(wrapped) THEN Raise(L, wrapped.kind)
       ELSE [L EXCEPT !.pc = "done", !.merged = wrapped]

Final(L) == L.pc \in {"done", "raised"}

\* The section of load() the loader stands at
Step(files, L) ==
    CASE L.pc = "load_base" -> load_base(files, L)
      [] L.pc = "base_imports" -> apply_imports_recursive(files, L)
      [] L.pc = "load_profile" -> load_profile(files, L)
      [] L.pc = "profile_imports" -> apply_imports_recursive(files, L)
      [] L.pc = "merge" -> merge(L)
      [] L.pc = "normalize" -> normalize(L)
      [] L.pc = "inject_metadata" -> inject_metadata(L)
      [] L.pc = "inject_secrets" -> wrap_secrets(L)
      [] OTHER -> L

RECURSIVE Run(_, _)
\* ConfigLoader.load(), run to its return or its exception
Run(files, L) == IF Final(L) THEN L ELSE Run(files, Step(files, L))

\* ConfigLoader(config_dir, profile).load()
load(files, config_dir, profile) == Run(files, NewLoader(config_dir, profile))

----------------------------------------------------------------------------
(* The files the loader is run on.                                         *)

MaxNest == 3

CfgDir == <<"cfg">>
Missing == [t |-> "missing"]

\* `imports:` entries as written
rA == Ref(FALSE, <<>>, "a", "")
rB == Ref(FALSE, <<>>, "b", "")
rCommon == Ref(FALSE, <<"imports">>, "common", "")
rSelf == Ref(FALSE, <<>>, "application", "")
rEtc == Ref(FALSE, <<"..", "..", "etc">>, "passwd", "")
rSibling == Ref(FALSE, <<"..", "sibling">>, "app", "yml")
rBack == Ref(FALSE, <<"..", "cfg">>, "a", "yml")
rAbs == Ref(TRUE, <<"etc">>, "passwd", "")

File(dirs, stem) == [dirs |-> dirs, stem |-> stem, ext |-> Ext]
fBase == File(CfgDir, "application")
fDev == File(CfgDir, "application-dev")
fA == File(CfgDir, "a")
fB == File(CfgDir, "b")
fCommon == File(<<"cfg", "imports">>, "common")
fEtc == File(<<"etc">>, "passwd")
fSibling == [dirs |-> <<"sibling">>, stem |-> "app", ext |-> "yml"]

Imports(l) == <<"imports", Lst(l)>>

\* What application.yml holds at its point of interest
BaseCores ==
    {Map(<< <<"foo", Str("base")>> >>), Map(<< <<"imports", Str("a")>> >>),
     Map(<< Imports(<<rA>>), <<"x", Map(<< Imports(<<rSelf>>) >>)>> >>),
     Map(<< Imports(<<rA>>), <<"x", Map(<< Imports(<<rEtc>>) >>)>> >>)}
    \cup {Map(<< <<"foo", Str("base")>>, Imports(l) >>) :
            l \in {<<rA>>, <<rA, rB>>, <<rSelf>>, <<rEtc>>, <<rCommon>>,
                   <<rBack>>, <<rA, rA>>, <<rAbs>>, <<rSibling>>, <<rA, rEtc>>,
                   <<rA, rCommon>>}}

\* Where that point lies: a path of keys and list levels ("#") of at most
\* n steps, starting with a key.
RECURSIVE NestPaths(_)
NestPaths(n) ==
    IF n = 0 THEN {<<>>}
    ELSE LET S == NestPaths(n - 1)
         IN S \cup {Append(p, "a") : p \in {q \in S : Len(q) = n - 1}}
              \cup {Append(p, "#") : p \in {q \in S : Len(q) = n - 1 /\ n > 1}}

RECURSIVE Build(_, _)
\* `core` put under the path p
Build(core, p) ==
    IF p = <<>> THEN core
    ELSE IF Head(p) = "#" THEN Lst(<<Build(core, Tail(p))>>)
         ELSE Map(<< <<Head(p), Build(core, Tail(p))>> >>)

\* Values marked as encrypted, alone or in a mapping beside plain ones
SecretCores ==
    {Str(Enc("tok1")),
     Map(<< <<"foo", Str(Enc("tok1"))>>, <<"bar", Str("ENC(tok1")>>,
            <<"on", Bool(TRUE)>> >>)}

\* Files that write into the loader's own namespaces
UserDocs ==
    {Map(<< <<"sprigconfig",
              Map(<< <<"_meta", Map(<< <<"profile", Str("user")>> >>)>>,
                     <<"note", Str("keep")>> >>)>> >>),
     Map(<< <<"sprigconfig",
              Map(<< <<"_meta", Map(<< <<"sources", Lst(<<Str("mine")>>)>>,
                                       <<"import_trace", Lst(<<>>)>>,
                                       <<"note", Str("keep")>> >>)>> >>)>> >>),
     Map(<< <<"sprigconfig", Str("mine")>> >>),
     Map(<< <<"app", Map(<< <<"profile", Str("base")>>,
                            <<"name", Str("X")>> >>)>> >>),
     Map(<< <<"app", Str("mine")>> >>)}

\* application.yml that does not parse, and one that parses to a list
OddDocs == {Malformed, Lst(<<Str("x")>>)}

BaseDocs ==
    {Missing} \cup {Build(c, p) : c \in BaseCores, p \in NestPaths(MaxNest)}
      \cup {Build(c, p) : c \in SecretCores, p \in NestPaths(MaxNest) \ {<<>>}}
      \cup {c \in SecretCores : IsDict(c)}
      \cup UserDocs \cup OddDocs

DevDocs ==
    {Missing,
     Map(<< <<"app", Map(<< <<"profile", Str("file")>> >>)>>,
            <<"foo", Str("dev")>> >>),
     Map(<< Imports(<<rB>>) >>),
     Map(<< Imports(<<rA>>) >>)}

ADocs ==
    {Missing,
     Map(<< <<"foo", Str("A")>>, <<"x", Str("s")>> >>),
     Map(<< <<"a", Map(<< <<"a", Map(<< <<"foo", Str("bar")>> >>)>> >>)>> >>),
     Map(<< <<"foo", Str("A")>>, Imports(<<rB>>) >>),
     Map(<< Imports(<<rA>>) >>),
     Map(<< Imports(<<rSelf>>) >>),
     Map(<< <<"a", Map(<< Imports(<<rB>>) >>)>> >>)}

BDocs ==
    {Missing,
     Map(<< <<"foo", Str("B")>>, <<"b", Str("B")>> >>),
     Map(<< Imports(<<rA>>) >>)}

\* The file system holding the given documents; a Missing one is no file.
MkFs(docs) ==
    LET present == {i \in 1..Len(docs) : docs[i][2] # Missing}
    IN [f \in {docs[i][1] : i \in present} |->
           docs[CHOOSE i \in present : docs[i][1] = f][2]]

ImportSystems ==
    {MkFs(<< <<fBase, base>>, <<fDev, dev>>, <<fA, a>>, <<fB, b>>,
             <<fCommon, Map(<< <<"server", Map(<< <<"port", Str("8080")>> >>)>> >>)>>,
             <<fEtc, Map(<< <<"root", Str("x")>> >>)>>,
             <<fSibling, Map(<< <<"s", Str("x")>> >>)>> >>) :
        base \in BaseDocs, dev \in DevDocs, a \in ADocs, b \in BDocs}

\* Files for the merge warnings: application.yml imports imports/common.yml,
\* which gives `server` one of the two keys application.yml gives it, and
\* the overlay gives `server` one key too; each of the two files sets
\* suppress_config_merge_warnings to true, to false, or leaves it out
Flagged(doc, flag) ==
    IF flag = "none" THEN doc
    ELSE Put(doc, "suppress_config_merge_warnings", Bool(flag = "true"))
Flags == {"none", "true", "false"}
FlagBaseDocs ==
    {Flagged(Map(<< <<"server", Map(<< <<"port", Str("1")>>,
                                       <<"host", Str("h")>> >>)>>,
                    Imports(<<rCommon>>) >>), flag) : flag \in Flags}
FlagDevDocs ==
    {Missing} \cup
    {Flagged(Map(<< <<"server", Map(<< <<"port", Str("2")>> >>)>> >>), flag) :
        flag \in Flags}
FlagSystems ==
    {MkFs(<< <<fBase, base>>, <<fDev, dev>>,
             <<fCommon, Map(<< <<"server", Map(<< <<"port", Str("8080")>> >>)>> >>)>> >>) :
        base \in FlagBaseDocs, dev \in FlagDevDocs}

FileSystems == ImportSystems \cup FlagSystems

----------------------------------------------------------------------------
(* One ConfigLoader(CfgDir, "dev").load(), section by section.             *)

CacheIdle == cache = <<>> /\ lock = 0 /\ thr = <<>> /\ heap = 0 /\ hist = <<>>
\* Nothing is being merged by hand and no secret is held
BenchIdle == mrg = <<>> /\ sec = <<>>

\* The profile the loader is made with: only application-dev.yml is ever
\* on disk, so the other profiles run without an overlay
Profiles == {"dev", "prod", ""}

Init ==
    /\ fs \in FileSystems
    /\ \E profile \in Profiles :
          /\ profile # "dev" => (fDev \notin DOMAIN fs /\ fB \notin DOMAIN fs)
          /\ ldr = NewLoader(CfgDir, profile)
    /\ CacheIdle
    /\ BenchIdle

LoaderStep(pc, next) ==
    /\ ldr.pc = pc
    /\ ldr' = next
    /\ UNCHANGED <<mrg, sec, fs, cache, lock, thr, heap, hist>>

\* A step of the call of _apply_imports_recursive on top of the stack
ImportsStep(stage, next) ==
    /\ ldr.pc \in {"base_imports", "profile_imports"}
    /\ Top(ldr).stage = stage
    /\ ldr' = next
    /\ UNCHANGED <<mrg, sec, fs, cache, lock, thr, heap, hist>>

LoadBase == LoaderStep("load_base", load_base(fs, ldr))
EnterNode == ImportsStep("enter", enter_node(ldr))
NextImport == ImportsStep("imports", next_import(ldr))
LoadImport == ImportsStep("load", load_import(fs, ldr))
NextChild == ImportsStep("children", next_child(ldr))
NextItem == ImportsStep("items", next_item(ldr))
LoadProfile == LoaderStep("load_profile", load_profile(fs, ldr))
Merge == LoaderStep("merge", merge(ldr))
NormalizeProfile == LoaderStep("normalize", normalize(ldr))
InjectMetadata == LoaderStep("inject_metadata", inject_metadata(ldr))
InjectSecrets == LoaderStep("inject_secrets", wrap_secrets(ldr))

Next ==
    \/ LoadBase
    \/ EnterNode
    \/ NextImport
    \/ LoadImport
    \/ NextChild
    \/ NextItem
    \/ LoadProfile
    \/ Merge
    \/ NormalizeProfile
    \/ InjectMetadata
    \/ InjectSecrets

Spec == Init /\ [][Next]_vars

----------------------------------------------------------------------------
(* What the properties read off a tree or off the files.                   *)

Returned == ldr.pc = "done"
Raised == ldr.pc = "raised"

\* A key named `imports` in a mapping at any depth of v
RECURSIVE HasImportsKey(_)
HasImportsKey(v) ==
    CASE v.t = "map" -> \/ "imports" \in DOMAIN v.m
                        \/ \E k \in DOMAIN v.m : HasImportsKey(v.m[k])
      [] v.t = "seq" -> \E i \in 1..Len(v.s) : HasImportsKey(v.s[i])
      [] OTHER -> FALSE

\* The step of a tree path that selects element i of a list
IdxName(i) == "#" \o ToString(i)

\* The `imports` directives of v, each with the tree path of the mapping
\* that holds it and its list.  With deep = FALSE, those in the mappings
\* the resolver is specified to visit (child mappings, and mappings that
\* are elements of a list value); with deep = TRUE, those at any depth.
RECURSIVE DirectivesAt(_, _, _)
DirectivesAt(v, path, deep) ==
    CASE v.t = "map" ->
           (IF HasKey(v, "imports") /\ IsList(v.m["imports"])
            THEN {[path |-> path, list |-> v.m["imports"].s]} ELSE {})
           \cup UNION {DirectivesAt(v.m[k], Append(path, k), deep) :
                         k \in DOMAIN v.m \ {"imports"}}
      [] v.t = "seq" ->
           UNION {DirectivesAt(v.s[i], Append(path, IdxName(i)), deep) :
                    i \in {n \in 1..Len(v.s) :
                             IsDict(v.s[n]) \/ (deep /\ IsList(v.s[n]))}}
      [] OTHER -> {}

Directives(doc) == DirectivesAt(doc, <<>>, FALSE)

\* The values a document defines, each with its path: what deep_merge
\* copies as a whole (a scalar or a list) under the mappings it recurses in
RECURSIVE LeavesAt(_, _)
LeavesAt(v, path) ==
    IF IsDict(v)
    THEN UNION {LeavesAt(v.m[k], Append(path, k)) : k \in DOMAIN v.m}
    ELSE {[path |-> path, val |-> v]}

\* The value at a path of a tree, None when the path leads nowhere
RECURSIVE GetPath(_, _)
GetPath(v, path) ==
    IF path = <<>> THEN v
    ELSE IF IsDict(v)
         THEN IF HasKey(v, Head(path)) THEN GetPath(v.m[Head(path)], Tail(path))
              ELSE None
         ELSE IF IsList(v)
              THEN IF \E i \in 1..Len(v.s) : IdxName(i) = Head(path)
                   THEN GetPath(v.s[CHOOSE i \in 1..Len(v.s) :
                                       IdxName(i) = Head(path)], Tail(path))
                   ELSE None
              ELSE None

\* The references of a file's directives, resolved by a loader on CfgDir
Resolved(r) == resolve_import(NewLoader(CfgDir, "dev"), r)
RefsOf(f, deep) ==
    IF f \in DOMAIN fs
    THEN UNION {{d.list[i] : i \in 1..Len(d.list)} :
                  d \in DirectivesAt(fs[f], <<>>, deep)}
    ELSE {}
Targets(f, deep) == {Resolved(r).path : r \in RefsOf(f, deep)}

\* The files reached from those of S along at most n import references
RECURSIVE Reach(_, _, _)
Reach(S, n, deep) ==
    IF n = 0 THEN S
    ELSE Reach(S \cup UNION {Targets(f, deep) : f \in S}, n - 1, deep)

Depth == Cardinality(DOMAIN fs) + 1
\* The files load() starts from: the base file and the overlay if it exists
Roots == {fBase} \cup ({fDev} \cap DOMAIN fs)
OnCycle(f, deep) == f \in Reach(Targets(f, deep), Depth, deep)
\* Some file that load() reaches imports itself, directly or through others
CycleReachable(deep) == \E f \in Reach(Roots, Depth, deep) : OnCycle(f, deep)

\* Every reference of every file resolves inside the configuration directory
AllRefsInside == \A f \in DOMAIN fs : \A r \in RefsOf(f, FALSE) : Resolved(r).ok

\* Every file parses, and to a mapping
AllFilesParse == \A f \in DOMAIN fs : IsDict(fs[f])

\* No file holds a directive beneath a mapping that holds another one: what
\* an import merges into a mapping can replace the subtrees under it before
\* the resolver walks them
NoStackedDirectives ==
    \A f \in DOMAIN fs : \A d1, d2 \in Directives(fs[f]) :
        d1 # d2 => ~IsPrefix(d1.path, d2.path)

\* How many times a file was read
Loads(f) == Cardinality({i \in 1..Len(ldr.merge_trace) : ldr.merge_trace[i] = f})

----------------------------------------------------------------------------
(* Properties of one load().                                               *)

\* C1: once load() has returned for files whose imports form no cycle, the
\* returned tree holds no key named `imports` at any depth, the mappings
\* nested in sequences included.
C1_NoImportsKeyLeft ==
    (Returned /\ ~CycleReachable(TRUE)) => ~HasImportsKey(ldr.merged)

\* C2: a file is read at most twice in one load() (once as the base file or
\* the overlay, once as an import), so the resolver follows no cycle for
\* ever; and when the directives of the files reached from the base file or
\* the overlay form a cycle (A imports B imports A, a file importing itself,
\* a file importing the base file), load() ends by raising the circular
\* import error.  The second part is for files that all parse to a mapping,
\* whose references all stay inside the configuration directory and none
\* of whose directives lies beneath another one.
C2_CyclesRaise ==
    /\ \A f \in DOMAIN fs : Loads(f) <= 2
    /\ (Final(ldr) /\ CycleReachable(FALSE) /\ AllRefsInside
            /\ NoStackedDirectives /\ AllFilesParse)
         => (Raised /\ ldr.err = "circular")

\* a.yml and b.yml import each other, both were read once, and load() raised
C2_Witness ==
    /\ Raised /\ ldr.err = "circular"
    /\ fB \in Targets(fA, FALSE) /\ fA \in Targets(fB, FALSE)
    /\ Loads(fA) = 1 /\ Loads(fB) = 1

InsideConfigDir(path) == RelativeTo(path, Normalize(<<>>, ldr.config_dir))
FilesRead == {ldr.merge_trace[i] : i \in 1..Len(ldr.merge_trace)}
FilesRecorded == {ldr.import_trace[i].file : i \in 1..Len(ldr.import_trace)}

\* C3: no file outside the configuration directory is ever read or
\* recorded; load() returns only if every reference of the files it read
\* resolves inside the directory; and it raises the path traversal error
\* only if some reference of a file it read resolves outside, so that a
\* reference into a subdirectory, or one that leaves the directory and comes
\* back, is not rejected.
C3_TraversalRejected ==
    /\ \A f \in FilesRead \cup FilesRecorded : InsideConfigDir(f)
    /\ (Returned /\ NoStackedDirectives)
         => \A f \in FilesRead : \A r \in RefsOf(f, FALSE) : Resolved(r).ok
    /\ (Raised /\ ldr.err = "traversal")
         => \E f \in FilesRead : \E r \in RefsOf(f, FALSE) : ~Resolved(r).ok

\* application.yml imports ../../etc/passwd, which exists: load() raised and
\* the file was neither read nor recorded
C3_Witness ==
    /\ Raised /\ ldr.err = "traversal"
    /\ rEtc \in RefsOf(fBase, FALSE)
    /\ fEtc \in DOMAIN fs
    /\ fEtc \notin FilesRead \cup FilesRecorded

\* A file that exists and holds no directive of its own
Plain(f) == f \in DOMAIN fs /\ ~HasImportsKey(fs[f])
EntryFile(d, i) == Resolved(d.list[i]).path

\* What directive d of application.yml leaves in `tree`: each value of each
\* file it lists is at the directive's path followed by the value's own
\* path, unless a later entry of the list writes the same top-level key;
\* and the mappings above the directive have the keys application.yml gave
\* them, and `extra`.  For a directive that lies beneath no other one and
\* lists references into the configuration directory to files that hold no
\* directives.
Placed(tree, d, extra) ==
    (/\ \A e \in Directives(fs[fBase]) : e # d => ~IsPrefix(e.path, d.path)
     /\ \A i \in 1..Len(d.list) :
           /\ Resolved(d.list[i]).ok
           /\ EntryFile(d, i) \in DOMAIN fs => Plain(EntryFile(d, i)))
    => /\ \A i \in 1..Len(d.list) :
            EntryFile(d, i) \in DOMAIN fs =>
              \A lf \in LeavesAt(fs[EntryFile(d, i)], <<>>) :
                 (\A j \in (i + 1)..Len(d.list) :
                     EntryFile(d, j) \in DOMAIN fs =>
                        ~HasKey(fs[EntryFile(d, j)], Head(lf.path)))
                 => GetPath(tree, d.path \o lf.path) = lf.val
       /\ \A k \in 0..(Len(d.path) - 1) :
            LET above == GetPath(fs[fBase], SubSeq(d.path, 1, k))
            IN IsDict(above) =>
                 DOMAIN GetPath(tree, SubSeq(d.path, 1, k)).m =
                   DOMAIN above.m \cup (IF k = 0 THEN extra ELSE {})

\* C4: a directive at path P of application.yml puts the value an imported
\* file defines at its own path Q at P.Q, and adds no key to the document
\* root or to any mapping above P: in the base tree once its imports are
\* resolved, and in the tree load() returns when no overlay is merged over it.
C4_PositionalMerge ==
    /\ (ldr.pc = "load_profile" /\ fBase \in DOMAIN fs)
         => \A d \in Directives(fs[fBase]) : Placed(ldr.base, d, {})
    /\ (Returned /\ fBase \in DOMAIN fs /\ fDev \notin DOMAIN fs)
         => \A d \in Directives(fs[fBase]) :
               Placed(ldr.merged, d, {"app", "sprigconfig"})

\* The directive sits at a.a, the imported file defines a.a.foo, and the
\* returned tree has a.a.a.a.foo with nothing new at the root
C4_Witness ==
    /\ Returned /\ fBase \in DOMAIN fs /\ fDev \notin DOMAIN fs
    /\ [path |-> <<"a", "a">>, list |-> <<rA>>] \in Directives(fs[fBase])
    /\ Plain(fA)
    /\ [path |-> <<"a", "a", "foo">>, val |-> Str("bar")]
          \in LeavesAt(fs[fA], <<>>)
    /\ GetPath(ldr.merged, <<"a", "a", "a", "a", "foo">>) = Str("bar")
    /\ DOMAIN ldr.merged.m = {"a", "app", "sprigconfig"}

MetaOf(tree, key) == GetPath(tree, <<"sprigconfig", "_meta", key>>)

\* What merging the files produced (load(), line 160), before load() wrote
\* anything of its own into the tree
FilesTree == deepmerge_deep_merge(ldr.base, ldr.profile_data, ldr.suppress)
\* The entries of a trace in ascending `order`
ByOrder(trace) ==
    [i \in 1..Len(trace) |->
        trace[CHOOSE n \in 1..Len(trace) :
                 Cardinality({m \in 1..Len(trace) :
                     trace[m].m["order"].n < trace[n].m["order"].n}) = i - 1]]

\* C10: in the tree load() returns, the set of _meta.sources is the set of
\* the `file` fields of _meta.import_trace, and sources is the list of those
\* fields in ascending `order`, whichever files exist or are missing.
C10_SourcesMatchTrace ==
    (Returned /\ MetaOf(FilesTree, "sources") = None
              /\ MetaOf(FilesTree, "import_trace") = None) =>
        LET sources == MetaOf(ldr.merged, "sources").s
            trace == MetaOf(ldr.merged, "import_trace").s
        IN /\ {sources[i] : i \in 1..Len(sources)} =
                {trace[i].m["file"] : i \in 1..Len(trace)}
           /\ sources = [i \in 1..Len(trace) |-> ByOrder(trace)[i].m["file"]]

\* The place in the trace of entry n of directive d of file f
EventOf(f, d, n) ==
    CHOOSE k \in 1..Len(ldr.import_trace) :
        /\ ldr.import_trace[k].imported_by = f
        /\ ldr.import_trace[k].import_key = d.list[n]
\* The files entry n of directive d imports, directly or through others
ImportedBy(d, n) == Reach(Targets(EntryFile(d, n), FALSE), Depth, FALSE)

\* C11: at every moment of a load the `order` fields increase strictly
\* along the trace, and the trace is a depth-first listing: each event after
\* the first was imported by the file of the latest earlier event one level
\* up.  Once load() has returned, the entries of every `imports` list of
\* every file read are recorded in listed order, and between entry i and
\* entry i+1 lie exactly the files entry i imports, directly or through
\* others (for files none of whose directives lies beneath another one).
C11_DepthFirstOrder ==
    LET tr == ldr.import_trace
    IN /\ \A i, j \in 1..Len(tr) : i < j => tr[i].order < tr[j].order
       /\ \A k \in 2..Len(tr) :
            LET up == {i \in 1..(k - 1) : tr[i].depth = tr[k].depth - 1}
            IN /\ up # {}
               /\ tr[CHOOSE i \in up : \A m \in up : m <= i].file
                     = tr[k].imported_by
       /\ (Returned /\ NoStackedDirectives) =>
            \A f \in FilesRead : \A d \in Directives(fs[f]) :
               /\ \A n \in 1..Len(d.list) :
                     \E k \in 1..Len(tr) : /\ tr[k].imported_by = f
                                           /\ tr[k].import_key = d.list[n]
                                           /\ tr[k].file = EntryFile(d, n)
               /\ \A n \in 1..(Len(d.list) - 1) :
                     LET lo == EventOf(f, d, n)
                         hi == EventOf(f, d, n + 1)
                     IN /\ lo < hi
                        /\ {tr[k].file : k \in (lo + 1)..(hi - 1)}
                              = ImportedBy(d, n)

\* application.yml lists a then imports/common, a.yml imports b, and the
\* returned trace is application, a, b, common
C11_Witness ==
    /\ Returned /\ NoStackedDirectives /\ fDev \notin DOMAIN fs
    /\ fBase \in DOMAIN fs
    /\ [path |-> <<>>, list |-> <<rA, rCommon>>] \in Directives(fs[fBase])
    /\ fB \in Targets(fA, FALSE)
    /\ [i \in 1..Len(ldr.import_trace) |-> ldr.import_trace[i].file]
          = <<fBase, fA, fB, fCommon>>

Comparable(p, q) == IsPrefix(p, q) \/ IsPrefix(q, p)
\* Every entry of every directive of file f resolves inside the directory,
\* to a file that holds no directive of its own if it exists
PlainImports(f) ==
    f \in DOMAIN fs =>
        \A d \in Directives(fs[f]) : \A i \in 1..Len(d.list) :
            /\ Resolved(d.list[i]).ok
            /\ EntryFile(d, i) \in DOMAIN fs => Plain(EntryFile(d, i))
\* The leaves the directives of file f bring in, each at the path where the
\* directive puts it
ImportedLeaves(f) ==
    IF f \notin DOMAIN fs THEN {}
    ELSE UNION {UNION {{[path |-> d.path \o lf.path, val |-> lf.val] :
                          lf \in LeavesAt(fs[EntryFile(d, i)], <<>>)} :
                         i \in {n \in 1..Len(d.list) :
                                  EntryFile(d, n) \in DOMAIN fs}} :
                  d \in Directives(fs[f])}
\* The leaves a file defines itself, its directives and app.profile aside
OwnLeaves(f) ==
    {lf \in LeavesAt(fs[f], <<>>) :
        /\ \A i \in 1..Len(lf.path) : lf.path[i] # "imports"
        /\ lf.path # <<"app", "profile">>}

\* C15: in the tree load() returns, a leaf of the overlay is found at its
\* path when no imported file defines that path or one above or below it,
\* and a leaf of an imported file (imported by application.yml or by the
\* overlay) is found at its path when the overlay defines a leaf there:
\* base < profile < imports.  For directives that do not lie beneath one
\* another, listing files without directives, and for an imported leaf no
\* other import competes with.
C15_ImportsOverProfile ==
    (Returned /\ fBase \in DOMAIN fs /\ fDev \in DOMAIN fs
       /\ NoStackedDirectives /\ PlainImports(fBase) /\ PlainImports(fDev))
    => LET imported == ImportedLeaves(fBase) \cup ImportedLeaves(fDev)
       IN /\ \A lf \in OwnLeaves(fDev) :
               (\A il \in imported : ~Comparable(il.path, lf.path))
                 => GetPath(ldr.merged, lf.path) = lf.val
          /\ \A il \in imported :
               (/\ \E lf \in OwnLeaves(fDev) : lf.path = il.path
                /\ \A other \in imported \ {il} :
                      ~Comparable(other.path, il.path))
                 => GetPath(ldr.merged, il.path) = il.val

\* The keys _inject_metadata fills in
MetaKeys == {"profile", "sources", "import_trace"}

\* C16: in the tree load() returns, sprigconfig._meta.profile, .sources and
\* .import_trace hold the value the merged files define there, whenever they
\* define one, and every other value the files define under `sprigconfig`
\* is at its path unchanged.
C16_UserMetaKept ==
    Returned =>
        /\ \A key \in MetaKeys :
              MetaOf(FilesTree, key) # None
                => MetaOf(ldr.merged, key) = MetaOf(FilesTree, key)
        /\ \A lf \in LeavesAt(FilesTree, <<>>) :
              lf.path[1] = "sprigconfig"
                => GetPath(ldr.merged, lf.path) = lf.val

\* A file says sprigconfig._meta.profile is "user" and has a key of its own
\* beside _meta; load() under profile "dev" returns both, with the sources
\* and the trace it added itself
C16_Witness ==
    /\ Returned
    /\ ldr.profile = "dev"
    /\ MetaOf(FilesTree, "profile") = Str("user")
    /\ MetaOf(FilesTree, "sources") = None
    /\ MetaOf(ldr.merged, "profile") = Str("user")
    /\ MetaOf(ldr.merged, "sources") # None
    /\ GetPath(ldr.merged, <<"sprigconfig", "note">>) = Str("keep")

\* C17 as stated: in the tree load() returns, sprigconfig._meta.profile is
\* the profile the loader was made with, whatever the files contain.
C17_ProfileAlwaysRuntime ==
    Returned => MetaOf(ldr.merged, "profile") = Str(ldr.profile)

\* C17: in the tree load() returns, sprigconfig._meta.profile exists; it is
\* the value the merged files define there when they define one, and
\* otherwise the profile the loader was made with ("default" for an empty
\* one), whether or not the overlay of that profile exists.
C17_ProfileUnlessAuthored ==
    Returned =>
        LET authored == MetaOf(FilesTree, "profile")
        IN MetaOf(ldr.merged, "profile") =
              IF authored # None THEN authored
              ELSE IF ldr.profile = "" THEN Str("default")
                   ELSE Str(ldr.profile)

\* Profile "prod" with application.yml alone: no application-prod.yml, no
\* file that names a profile in _meta, and _meta.profile is "prod"
C17_Witness ==
    /\ Returned
    /\ ldr.profile = "prod"
    /\ fBase \in DOMAIN fs
    /\ ldr.profile_data = EmptyMap
    /\ MetaOf(FilesTree, "profile") = None
    /\ MetaOf(ldr.merged, "profile") = Str("prod")

\* C18: when the merged files define app.profile, the tree load() returns
\* has that value at app.profile: the profile the loader was made with is
\* kept in sprigconfig._meta.profile alone and never written over it.
C18_AppProfileFromFiles ==
    (Returned /\ GetPath(FilesTree, <<"app", "profile">>) # None)
    => GetPath(ldr.merged, <<"app", "profile">>) =
          GetPath(FilesTree, <<"app", "profile">>)

\* A tree with every ENC(...) string scalar, at any depth of mappings and
\* lists, replaced by the LazySecret of its token
RECURSIVE Wrapped(_)
Wrapped(v) ==
    IF IsEnc(v) THEN LazySecret(v.v)
    ELSE IF IsDict(v)
         THEN [v EXCEPT !.m = [k \in DOMAIN v.m |-> Wrapped(v.m[k])]]
         ELSE IF IsList(v)
              THEN Lst([i \in 1..Len(v.s) |-> Wrapped(v.s[i])])
              ELSE v

\* The tree load() hands to _inject_secrets (lines 165-177)
PreSecrets == inject_metadata(normalize(merge(ldr)))

\* load() is over and it got as far as _inject_secrets
SecretsReached ==
    /\ Final(ldr)
    /\ PreSecrets.pc = "inject_secrets"
    /\ Returned \/ ldr.merged = PreSecrets.merged

\* C19: a load() that gets as far as wrapping the secrets returns, and the
\* tree it returns is the merged tree with every ENC(token) string scalar,
\* under mappings and lists nested to any depth, replaced by a LazySecret
\* holding the token, and everything else as it was.
C19_AllSecretsWrapped ==
    SecretsReached =>
        /\ Returned
        /\ ldr.merged = Wrapped(PreSecrets.merged)

\* The failures load() reports as ConfigLoadError: a file the parser
\* rejects, a reference out of the configuration directory, a file imported
\* a second time
ConfigLoadErrors == {"parse", "traversal", "circular"}

\* C23: a load() that fails fails with ConfigLoadError, whatever the files
\* hold: content that does not parse, a circular import, a reference out of
\* the directory, a file whose top level is a list, an `app` or a
\* `sprigconfig` key that holds a scalar.
C23_OnlyConfigLoadError ==
    Raised => ldr.err \in ConfigLoadErrors

\* The file holds a true suppress_config_merge_warnings at its top level
FlagIn(f) ==
    /\ f \in DOMAIN fs
    /\ IsDict(fs[f])
    /\ GetFlag(fs[f], "suppress_config_merge_warnings")

\* The overlay of the loader's profile
OverlayFile ==
    ResolveIn(ldr.config_dir, FileName("application-" \o ldr.profile, Ext))

LastEventOf(tr, k, f) ==
    LET S == {i \in 1..(k - 1) : tr[i].file = f}
    IN IF S = {} THEN 0 ELSE CHOOSE i \in S : \A m \in S : m <= i

\* C25: each entry of an `imports` list that passes the traversal and the
\* cycle check appends one event to the trace in the step that checks it,
\* before the file is read (sources is unchanged by that step and the read
\* is the step that follows): the event's imported_by is the file holding
\* the directive, its import_key the entry as written, its file the entry
\* resolved, its depth one more than the depth of that file's own event.
\* At every moment, every event with a non-null imported_by has an earlier
\* event for that file, one level up.
C25_RecordedBeforeLoad ==
    /\ [][(NextImport /\ Top(ldr).i <= Len(Top(ldr).imports_list)
                      /\ ldr'.pc # "raised") =>
            LET f == Top(ldr)
                tr == ldr'.import_trace
                e == tr[Len(tr)]
                up == LastEventOf(tr, Len(tr), f.parent_file)
            IN /\ Len(tr) = Len(ldr.import_trace) + 1
               /\ SubSeq(tr, 1, Len(tr) - 1) = ldr.import_trace
               /\ e.imported_by = f.parent_file
               /\ e.import_key = f.imports_list[f.i]
               /\ e.file = resolve_import(ldr, f.imports_list[f.i]).path
               /\ up > 0 /\ e.depth = tr[up].depth + 1
               /\ ldr'.merge_trace = ldr.merge_trace
               /\ Top(ldr').stage = "load" /\ Top(ldr').imp = e.file]_vars
    /\ [](\A k \in 1..Len(ldr.import_trace) :
            LET tr == ldr.import_trace
            IN tr[k].imported_by # None =>
                 \E i \in 1..(k - 1) : /\ tr[i].file = tr[k].imported_by
                                       /\ tr[i].depth = tr[k].depth - 1)

\* application.yml imports a, a.yml imports b, b.yml imports a again: the
\* load has raised, and the trace holds the event of b, written `b` and
\* resolved to b.yml, imported by a.yml at depth 2
C25_Witness ==
    /\ Raised /\ ldr.err = "circular"
    /\ \E k \in 1..Len(ldr.import_trace) :
          /\ ldr.import_trace[k].file = fB
          /\ ldr.import_trace[k].import_key = rB
          /\ ldr.import_trace[k].imported_by = fA
          /\ ldr.import_trace[k].depth = 2

\* The place in the trace tr of the event through which event k was
\* imported: the latest earlier event for its imported_by, one level up
ParentOf(tr, k) ==
    LET S == {i \in 1..(k - 1) : /\ tr[i].file = tr[k].imported_by
                                 /\ tr[i].depth = tr[k].depth - 1}
    IN IF S = {} THEN 0 ELSE CHOOSE i \in S : \A m \in S : m <= i

RECURSIVE Lineage(_, _)
\* The places of all the events through which event k was imported
Lineage(tr, k) ==
    IF k = 0 \/ tr[k].imported_by = None THEN {}
    ELSE {ParentOf(tr, k)} \cup Lineage(tr, ParentOf(tr, k))

\* The places of the events load() records for the overlay (lines 135-140)
OverlayEvents(tr) ==
    {k \in 1..Len(tr) :
        /\ tr[k].depth = 1
        /\ tr[k].imported_by = fBase
        /\ tr[k].import_key = FileName("application-" \o ldr.profile, Ext)}

\* C27: at every moment of a load the trace starts with the event of the
\* base file, which has imported_by null, depth 0 and order 0 and is the
\* only event without an importer; every other event was imported through
\* the base file's event; the overlay is recorded once at most and not
\* before the base file's imports are done, and every event after the
\* overlay's was imported, directly or through others, by the overlay.
\* In the tree load() returns, sources lists the files of the trace that
\* exist, in the order of the trace.
C27_PipelineOrder ==
    LET tr == ldr.import_trace
        ov == OverlayEvents(tr)
    IN /\ tr # <<>> =>
            /\ tr[1].file = fBase /\ tr[1].imported_by = None
            /\ tr[1].depth = 0 /\ tr[1].order = 0
            /\ \A k \in 2..Len(tr) : /\ tr[k].imported_by # None
                                     /\ 1 \in Lineage(tr, k)
       /\ Cardinality(ov) <= 1
       /\ ldr.pc \in {"load_base", "base_imports", "load_profile"} => ov = {}
       /\ \A o \in ov : \A k \in (o + 1)..Len(tr) : o \in Lineage(tr, k)
       /\ \A o \in ov : \A k \in 2..(o - 1) : o \notin Lineage(tr, k)
       /\ Returned =>
            ldr.merge_trace =
                SelectSeq([k \in 1..Len(tr) |-> tr[k].file],
                          LAMBDA f : f \in DOMAIN fs)

\* application.yml imports a, application-dev.yml imports b: the load has
\* returned with the trace and sources application, a, application-dev, b
C27_Witness ==
    /\ Returned
    /\ [k \in 1..Len(ldr.import_trace) |-> ldr.import_trace[k].file]
          = <<fBase, fA, fDev, fB>>
    /\ ldr.merge_trace = <<fBase, fA, fDev, fB>>
    /\ ldr.import_trace[4].imported_by = fDev

\* The events of a trace that an `imports` entry produced: all but the
\* base file's and the overlay's (lines 106-111 and 135-140)
FromDirectives(tr) ==
    {k \in 1..Len(tr) : /\ tr[k].imported_by # None
                        /\ ~(tr[k].depth = 1 /\ tr[k].import_key.abs = FALSE
                             /\ tr[k].import_key.dirs = <<>>
                             /\ tr[k].import_key.ext = Ext
                             /\ tr[k].import_key.stem
                                   = "application-" \o ldr.profile)}

\* C28: at every moment of a load the events that `imports` entries
\* produced carry pairwise different files, and those files are the ones
\* the loader has marked as seen; and a step of the import loop whose entry
\* resolves, inside the configuration directory, to a file that an earlier
\* entry of this load already produced an event for raises the circular
\* import error, whether or not the files import each other in a cycle.
C28_ImportedOnce ==
    /\ [](LET tr == ldr.import_trace
              D == FromDirectives(tr)
          IN /\ \A i, j \in D : tr[i].file = tr[j].file => i = j
             /\ ldr.seen_imports = {tr[k].file : k \in D})
    /\ [][(/\ NextImport
           /\ Top(ldr).i <= Len(Top(ldr).imports_list)
           /\ LET imp == resolve_import(ldr, Top(ldr).imports_list[Top(ldr).i])
              IN /\ imp.ok
                 /\ imp.path \in {ldr.import_trace[k].file :
                                    k \in FromDirectives(ldr.import_trace)})
             => (ldr'.pc = "raised" /\ ldr'.err = "circular")]_vars

\* application.yml imports a then b and a.yml imports b: no file imports
\* itself, directly or through others, and the load has raised the circular
\* import error at the second reference to b.yml
C28_Witness ==
    /\ Raised /\ ldr.err = "circular"
    /\ ~CycleReachable(TRUE)
    /\ [path |-> <<>>, list |-> <<rA, rB>>] \in Directives(fs[fBase])
    /\ [k \in 1..Len(ldr.import_trace) |-> ldr.import_trace[k].file]
          = <<fBase, fA, fB>>
    /\ ldr.import_trace[3].imported_by = fA

----------------------------------------------------------------------------
(* ConfigSingleton: threads calling get, reload and _clear_all on the      *)
(* class-level cache.  cache maps a key to the Config instance stored      *)
(* under it, an instance being the number heap had reached when load()     *)
(* made it; lock is the thread inside `with cls._lock`, 0 when none is;    *)
(* thr is each thread's position in its call; hist is the log of the       *)
(* calls in the order they were made, each with the times at which it was  *)
(* made, performed its load() and ended.                                   *)

MaxCalls == 3
Threads == {1, 2}

AliasDir == <<"cfg", "..", "cfg">>
BadDir == <<"bad">>
NoKey == [dir |-> <<>>, profile |-> ""]

\* The (config_dir, profile) arguments the threads pass to get and to reload
GetTargets ==
    {[dir |-> CfgDir, profile |-> "dev"], [dir |-> CfgDir, profile |-> "prod"],
     [dir |-> AliasDir, profile |-> "dev"], [dir |-> BadDir, profile |-> "dev"]}
ReloadTargets == {[dir |-> CfgDir, profile |-> "dev"]}

\* cfg/ loads; bad/application.yml imports itself, so its load() raises
CacheFs ==
    MkFs(<< <<fBase, Map(<< <<"foo", Str("base")>>, Imports(<<rA>>) >>)>>,
            <<fDev, Map(<< <<"foo", Str("dev")>> >>)>>,
            <<fA, Map(<< <<"foo", Str("A")>>, <<"x", Str("s")>> >>)>>,
            <<File(BadDir, "application"), Map(<< Imports(<<rSelf>>) >>)>> >>)

\* The same files once application.yml of cfg/ has been edited into
\* something that does not parse: every load() on cfg/ raises
BrokenFs == [CacheFs EXCEPT ![fBase] = Malformed]

\* A key made of the directory as the caller spelled it
make_key_unresolved(profile, config_dir) ==
    [dir |-> config_dir, profile |-> profile]

\* ConfigSingleton._make_key
make_key(profile, config_dir) ==
    [dir |-> Normalize(<<>>, config_dir), profile |-> profile]

\* A lock that lets every thread in
lock_open(l) == TRUE

\* `with cls._lock` is entered when no thread holds the lock
lock_free(l) == l = 0

\* A reload that goes through the check of get
body_as_get(op) ==
    CASE op = "get" -> "check" [] op = "reload" -> "check"
      [] op = "clear" -> "clear"

\* Where the body of each method starts once the lock is held
body(op) ==
    CASE op = "get" -> "check" [] op = "reload" -> "load"
      [] op = "clear" -> "clear"

\* An assignment that keeps no other entry
store_alone(c, key, cfg) == [k \in {key} |-> cfg]

\* cls._cache[key] = cfg
store(c, key, cfg) ==
    [k \in DOMAIN c \cup {key} |-> IF k = key THEN cfg ELSE c[k]]

\* A clear that drops nothing
clear_nothing(c) == c

\* cls._cache.clear()
clear(c) == <<>>

\* What ConfigLoader(config_dir, profile).load() comes to for each of the
\* arguments passed, on the files the threads run on, which do not change
Loaded == [tg \in GetTargets |-> load(CacheFs, tg.dir, tg.profile)]
LoadedBroken == [tg \in GetTargets |-> load(BrokenFs, tg.dir, tg.profile)]

Idle == [pc |-> "idle", op |-> "none", dir |-> <<>>, profile |-> "",
         key |-> NoKey, cfg |-> 0, at |-> 0]

\* The time of the next entry in the log: one more than the calls, loads and
\* returns logged so far
Tick ==
    1 + Len(hist) + Cardinality({i \in DOMAIN hist : hist[i].load # 0})
      + Cardinality({i \in DOMAIN hist : hist[i].ret # 0})

InitCache ==
    /\ fs = CacheFs
    /\ ldr = NewLoader(CfgDir, "dev")
    /\ cache = <<>>
    /\ lock = 0
    /\ thr = [t \in Threads |-> Idle]
    /\ heap = 0
    /\ hist = <<>>
    /\ BenchIdle

\* A thread calls a method: the key is made before the lock is taken.  The
\* log entry of the call has no load (made = 0 is no instance), no return
\* and no result yet.
Call(t, op, target) ==
    /\ thr[t].pc = "idle"
    /\ Len(hist) < MaxCalls
    /\ thr' = [thr EXCEPT ![t] =
                  [pc |-> "acquire", op |-> op, dir |-> target.dir,
                   profile |-> target.profile,
                   key |-> IF op = "clear" THEN NoKey
                           ELSE make_key(target.profile, target.dir),
                   cfg |-> 0, at |-> Len(hist) + 1]]
    /\ hist' = Append(hist, [th |-> t, op |-> op, dir |-> target.dir,
                             profile |-> target.profile, call |-> Tick,
                             load |-> 0, made |-> 0, ret |-> 0, id |-> 0,
                             ok |-> FALSE])
    /\ UNCHANGED <<mrg, sec, fs, ldr, cache, lock, heap>>

CallGet(t) == \E target \in GetTargets : Call(t, "get", target)
CallReload(t) == \E target \in ReloadTargets : Call(t, "reload", target)
CallClear(t) == Call(t, "clear", NoKey)

\* with cls._lock:
Acquire(t) ==
    /\ thr[t].pc = "acquire"
    /\ lock_free(lock)
    /\ lock' = t
    /\ thr' = [thr EXCEPT ![t].pc = body(thr[t].op)]
    /\ UNCHANGED <<mrg, sec, fs, ldr, cache, heap, hist>>

\* get, line 52: if key not in cls._cache
Check(t) ==
    /\ thr[t].pc = "check"
    /\ thr' = [thr EXCEPT ![t].pc = IF thr[t].key \in DOMAIN cache
                                    THEN "read" ELSE "load"]
    /\ UNCHANGED <<mrg, sec, fs, ldr, cache, lock, heap, hist>>

\* get, lines 53-56, and reload, lines 71-74: a loader is made and run; what
\* load() returns is a Config, a new instance, and what it raises leaves
\* the method
Load(t) ==
    /\ thr[t].pc = "load"
    /\ LET target == [dir |-> thr[t].dir, profile |-> thr[t].profile]
           loader == IF fs = CacheFs THEN Loaded[target]
                     ELSE LoadedBroken[target]
       IN /\ ldr' = loader
          /\ IF loader.pc = "done"
             THEN /\ heap' = heap + 1
                  /\ thr' = [thr EXCEPT ![t].pc = "store", ![t].cfg = heap + 1]
                  /\ hist' = [hist EXCEPT ![thr[t].at].load = Tick,
                                          ![thr[t].at].made = heap + 1]
             ELSE /\ heap' = heap
                  /\ thr' = [thr EXCEPT ![t].pc = "raise"]
                  /\ hist' = [hist EXCEPT ![thr[t].at].load = Tick]
    /\ UNCHANGED <<mrg, sec, fs, cache, lock>>

\* get, line 58, and reload, lines 76-77
Store(t) ==
    /\ thr[t].pc = "store"
    /\ cache' = store(cache, thr[t].key, thr[t].cfg)
    /\ thr' = [thr EXCEPT ![t].pc = IF thr[t].op = "get" THEN "read" ELSE "exit"]
    /\ UNCHANGED <<mrg, sec, fs, ldr, lock, heap, hist>>

\* get, line 60: return cls._cache[key], a KeyError if the key is not there
Read(t) ==
    /\ thr[t].pc = "read"
    /\ thr' = IF thr[t].key \in DOMAIN cache
              THEN [thr EXCEPT ![t].pc = "exit", ![t].cfg = cache[thr[t].key]]
              ELSE [thr EXCEPT ![t].pc = "raise"]
    /\ UNCHANGED <<mrg, sec, fs, ldr, cache, lock, heap, hist>>

\* _clear_all, line 86
Clear(t) ==
    /\ thr[t].pc = "clear"
    /\ cache' = clear(cache)
    /\ thr' = [thr EXCEPT ![t].pc = "exit"]
    /\ UNCHANGED <<mrg, sec, fs, ldr, lock, heap, hist>>

\* An exit that releases the lock on a return only, as a method does that
\* calls acquire() and release() around a body with no try/finally
Exit_held_on_raise(t) ==
    /\ thr[t].pc \in {"exit", "raise"}
    /\ lock' = IF thr[t].pc = "raise" THEN lock ELSE 0
    /\ hist' = [hist EXCEPT ![thr[t].at].ret = Tick,
                            ![thr[t].at].ok = (thr[t].pc = "exit"),
                            ![thr[t].at].id = IF thr[t].pc = "exit"
                                              THEN thr[t].cfg ELSE 0]
    /\ thr' = [thr EXCEPT ![t] = Idle]
    /\ UNCHANGED <<mrg, sec, fs, ldr, cache, heap>>

\* The `with` block is left, by a return or by an exception: the lock is
\* released and the call ends
Exit(t) ==
    /\ thr[t].pc \in {"exit", "raise"}
    /\ lock' = 0
    /\ hist' = [hist EXCEPT ![thr[t].at].ret = Tick,
                            ![thr[t].at].ok = (thr[t].pc = "exit"),
                            ![thr[t].at].id = IF thr[t].pc = "exit"
                                              THEN thr[t].cfg ELSE 0]
    /\ thr' = [thr EXCEPT ![t] = Idle]
    /\ UNCHANGED <<mrg, sec, fs, ldr, cache, heap>>

\* Somebody edits application.yml of cfg/ between two calls or during
\* one: it stops parsing, or parses again
EditFile ==
    /\ fs' = IF fs = CacheFs THEN BrokenFs ELSE CacheFs
    /\ UNCHANGED <<mrg, sec, ldr, cache, lock, thr, heap, hist>>

NextCache ==
    \/ \E t \in Threads :
          \/ CallGet(t)
          \/ CallReload(t)
          \/ CallClear(t)
          \/ Acquire(t)
          \/ Check(t)
          \/ Load(t)
          \/ Store(t)
          \/ Read(t)
          \/ Clear(t)
          \/ Exit(t)
    \/ EditFile

SpecCache == InitCache /\ [][NextCache]_vars

----------------------------------------------------------------------------
(* Properties of the cache, read off the log.  A call is its position in   *)
(* the log.                                                                *)

CallsOf(op) == {i \in DOMAIN hist : hist[i].op = op}
\* The calls of op that returned
Done(op) == {i \in CallsOf(op) : hist[i].ret # 0 /\ hist[i].ok}
Result(i) == hist[i].id
\* The absolute directory of each directory the threads pass
AbsDir == [d \in {tg.dir : tg \in GetTargets \cup ReloadTargets \cup {NoKey}} |->
              Normalize(<<>>, d)]
\* The (absolute directory, profile) a call is about
KeyOf(i) == [dir |-> AbsDir[hist[i].dir], profile |-> hist[i].profile]
\* The calls whose load() made an instance for a key
LoadsFor(key) == {i \in DOMAIN hist : hist[i].made # 0 /\ KeyOf(i) = key}

\* The calls that can change what the cache holds for a key
Mutators(key) ==
    {m \in CallsOf("reload") : KeyOf(m) = key} \cup CallsOf("clear")
\* The call m runs at some time between the times lo and hi
Overlaps(m, lo, hi) ==
    hist[m].call < hi /\ (hist[m].ret = 0 \/ hist[m].ret > lo)
\* No reload of a key and no _clear_all, those of `except` apart, runs
\* between lo and hi
Undisturbed(key, lo, hi, except) ==
    \A m \in Mutators(key) \ except : ~Overlaps(m, lo, hi)

\* C5: as long as no reload of a key and no _clear_all was called, at most
\* one load() made an instance for the key, however the get calls of the
\* threads interleave, and every get that returned for the key returned the
\* instance of that one load.
C5_OneLoadPerKey ==
    \A g \in CallsOf("get") :
        Mutators(KeyOf(g)) = {} =>
           /\ Cardinality(LoadsFor(KeyOf(g))) <= 1
           /\ g \in Done("get") =>
                 /\ LoadsFor(KeyOf(g)) # {}
                 /\ \A l \in LoadsFor(KeyOf(g)) : Result(g) = hist[l].made

\* Two threads were inside get for the same key at the same time on an
\* empty cache and both returned the instance of the only load
C5_Witness ==
    \E g1, g2 \in Done("get") :
        /\ hist[g1].th # hist[g2].th /\ KeyOf(g1) = KeyOf(g2)
        /\ hist[g1].call < hist[g2].call /\ hist[g2].call < hist[g1].ret
        /\ Mutators(KeyOf(g1)) = {}
        /\ Cardinality(LoadsFor(KeyOf(g1))) = 1
        /\ Result(g1) = Result(g2)

\* C6: two get calls that returned, with no reload of their key and no
\* _clear_all running between the call of the first and the return of the
\* last, returned the same instance if their (absolute directory, profile)
\* are the same; and two get calls whose directory or profile differ
\* returned different instances.
C6_SameKeySameInstance ==
    \A g1, g2 \in Done("get") :
        /\ KeyOf(g1) # KeyOf(g2) => Result(g1) # Result(g2)
        /\ (/\ KeyOf(g1) = KeyOf(g2) /\ g1 < g2
            /\ Undisturbed(KeyOf(g1), hist[g1].call,
                           IF hist[g1].ret > hist[g2].ret THEN hist[g1].ret
                           ELSE hist[g2].ret, {}))
             => Result(g1) = Result(g2)

\* get for cfg and get for cfg/../cfg returned one instance, get for
\* another profile another one
C6_Witness ==
    \E g1, g2, g3 \in Done("get") :
        /\ hist[g1].dir = CfgDir /\ hist[g2].dir = AliasDir
        /\ hist[g1].profile = hist[g2].profile
        /\ Result(g1) = Result(g2)
        /\ hist[g3].dir = CfgDir /\ hist[g3].profile # hist[g1].profile
        /\ Result(g3) # Result(g1)

\* C7: a reload that returned made its instance by a load() of its own,
\* whether or not the key had an entry; no other load made that instance
\* and no call that ended before the reload was made returned it; a get for
\* the key called after the reload returned returns that instance, and a
\* get that runs while the reload does returns that instance or an older
\* one, as long as no other reload of the key and no _clear_all runs in
\* between.
C7_ReloadReplaces ==
    \A r \in Done("reload") :
        /\ hist[r].made # 0 /\ hist[r].made = Result(r)
        /\ hist[r].call < hist[r].load /\ hist[r].load < hist[r].ret
        /\ \A i \in DOMAIN hist \ {r} :
              /\ hist[i].made # Result(r)
              /\ (hist[i].ret # 0 /\ hist[i].ret < hist[r].call)
                   => hist[i].id # Result(r)
        /\ \A g \in Done("get") :
              (/\ KeyOf(g) = KeyOf(r)
               /\ Undisturbed(KeyOf(r), hist[r].call, hist[g].ret, {r}))
              => /\ hist[g].call > hist[r].ret => Result(g) = Result(r)
                 /\ hist[g].ret > hist[r].call => Result(g) <= Result(r)

\* The key was cached, reload returned another instance, and the get
\* called after it returned that one
C7_Witness ==
    \E r \in Done("reload") : \E g1, g2 \in Done("get") :
        /\ KeyOf(g1) = KeyOf(r) /\ KeyOf(g2) = KeyOf(r)
        /\ hist[g1].ret < hist[r].call /\ hist[g2].call > hist[r].ret
        /\ Result(g1) # Result(r)
        /\ Result(g2) = Result(r)

EntryOf(c, key) == IF key \in DOMAIN c THEN c[key] ELSE 0

\* C8: no step of a reload changes the entry of a key other than its own;
\* and a get for another key called after a reload returned returns what a
\* get for that key returned before the reload was called, as long as no
\* reload of that key and no _clear_all runs in between.
C8_ReloadFrame ==
    /\ [][\A t \in Threads :
            (thr[t].op = "reload" /\ thr'[t] # thr[t]) =>
               \A key \in (DOMAIN cache \cup DOMAIN cache') \ {thr[t].key} :
                  EntryOf(cache', key) = EntryOf(cache, key)]_vars
    /\ [](\A r \in Done("reload") : \A g1, g2 \in Done("get") :
            (/\ KeyOf(g1) = KeyOf(g2) /\ KeyOf(g1) # KeyOf(r)
             /\ hist[g1].ret < hist[r].call /\ hist[g2].call > hist[r].ret
             /\ Undisturbed(KeyOf(g1), hist[g1].call, hist[g2].ret, {}))
            => Result(g1) = Result(g2))

\* get for one key, reload of another, get for the first again: the same
\* instance both times, and not the reloaded one
C8_Witness ==
    \E r \in Done("reload") : \E g1, g2 \in Done("get") :
        /\ KeyOf(g1) = KeyOf(g2) /\ KeyOf(g1) # KeyOf(r)
        /\ hist[g1].ret < hist[r].call /\ hist[g2].call > hist[r].ret
        /\ Result(g1) = Result(g2)
        /\ Result(g1) # Result(r)

\* C9: when _clear_all leaves its `with` block the cache is empty; and the
\* instance a get returns, when called after a _clear_all returned, was made
\* by a load() performed after that _clear_all was called.
C9_ClearEmpties ==
    /\ \A t \in Threads :
          (thr[t].op = "clear" /\ thr[t].pc = "exit") => cache = <<>>
    /\ \A c \in Done("clear") : \A g \in Done("get") :
          hist[g].call > hist[c].ret =>
             \E l \in DOMAIN hist :
                hist[l].made = Result(g) /\ hist[l].load > hist[c].call

\* A key was cached, _clear_all returned, and the next get for the key
\* returned a new instance
C9_Witness ==
    \E c \in Done("clear") : \E g1, g2 \in Done("get") :
        /\ KeyOf(g1) = KeyOf(g2)
        /\ hist[g1].ret < hist[c].call /\ hist[g2].call > hist[c].ret
        /\ Result(g1) # Result(g2)
        /\ cache # <<>>

\* The calls whose load() raised and which have ended
Failed == {i \in DOMAIN hist : hist[i].load # 0 /\ hist[i].ret # 0 /\ ~hist[i].ok}

\* C29: a get or a reload whose load() raises leaves the cache as it found
\* it and gives the lock back.  No step changes the cache while a thread is
\* between taking the lock and the end of a call that raises (checking,
\* loading, raising); a get that raises has no entry under its key; the step
\* that ends a raising call frees the lock; and the lock is never held by a
\* thread that is not inside a `with` block, so no later call waits for a
\* call that has ended.
C29_FailedLoadKeepsCache ==
    /\ [][\A t \in Threads :
            (lock = t /\ thr[t].pc \in {"check", "load", "raise"}
                      /\ thr'[t].pc \in {"load", "raise", "idle"})
              => /\ cache' = cache
                 /\ (thr[t].pc = "raise" => (thr'[t].pc = "idle" => lock' = 0))]_vars
    /\ [](\A t \in Threads :
            /\ (thr[t].pc = "raise" /\ thr[t].op = "get")
                  => thr[t].key \notin DOMAIN cache
            /\ thr[t].pc = "raise" => lock = t
            /\ thr[t].pc \in {"idle", "acquire"} => lock # t)

\* A get cached an instance, application.yml stopped parsing, a reload of
\* the same key raised, and a later get by the other thread returned the
\* instance the first get had cached
C29_Witness ==
    /\ Len(hist) = 3 /\ lock = 0
    /\ hist[1].op = "get" /\ hist[1].ok /\ hist[1].made # 0
    /\ hist[2].op = "reload" /\ 2 \in Failed /\ KeyOf(2) = KeyOf(1)
    /\ hist[3].op = "get" /\ hist[3].ok /\ KeyOf(3) = KeyOf(1)
    /\ hist[3].th # hist[2].th
    /\ hist[3].call > hist[2].ret
    /\ Result(3) = hist[1].made
    /\ cache[KeyOf(1)] = hist[1].made

----------------------------------------------------------------------------
(* deep_merge on its own: two trees, merged one into the other, the other  *)
(* way round, and the override merged a second time into the result.  Each *)
(* call works on fresh copies of the trees.                                *)

MaxVal == 2

Scalars == {Str(ToString(i)) : i \in 1..MaxVal}
Section(k, v) == Map(<< <<k, v>> >>)
\* What a list holds: scalars and mappings
Elems == Scalars \cup {Section("x", s) : s \in Scalars}
Lists ==
    {Lst(<<>>)} \cup {Lst(<<e>>) : e \in Elems}
      \cup {Lst(<<e1, e2>>) : e1 \in Scalars, e2 \in Elems}
FlatDicts ==
    {EmptyMap} \cup {Section(k, v) : k \in {"x", "y"}, v \in Scalars}
      \cup {Map(<< <<"x", v>>, <<"y", w>> >>) : v, w \in Scalars}
MergeTrees ==
    {EmptyMap}
      \cup {Section(k, v) : k \in {"x", "y"}, v \in Scalars \cup Lists}
      \cup {Map(<< <<k[1], v>>, <<k[2], w>> >>) :
              k \in {<<"x", "y">>, <<"y", "x">>}, v, w \in Scalars}
      \cup {Section("x", d) : d \in FlatDicts}
      \cup {Map(<< <<"x", d>>, <<"y", v>> >>) : d \in FlatDicts, v \in Scalars}

InitMerge ==
    /\ mrg \in {[pc |-> "start", base |-> a, override |-> b,
                 ab |-> None, ba |-> None, abb |-> None] :
                   a \in MergeTrees, b \in MergeTrees}
    /\ sec = <<>>
    /\ fs = <<>>
    /\ ldr = NewLoader(CfgDir, "dev")
    /\ CacheIdle

MergeStep(pc, next) ==
    /\ mrg.pc = pc
    /\ mrg' = next
    /\ UNCHANGED <<sec, fs, ldr, cache, lock, thr, heap, hist>>

\* deep_merge(A, B)
MergeAB ==
    MergeStep("start", [mrg EXCEPT !.pc = "ab",
                                   !.ab = deep_merge(mrg.base, mrg.override)])
\* deep_merge(B, A)
MergeBA ==
    MergeStep("ab", [mrg EXCEPT !.pc = "ba",
                                !.ba = deep_merge(mrg.override, mrg.base)])
\* deep_merge(deep_merge(A, B), B)
MergeAgain ==
    MergeStep("ba", [mrg EXCEPT !.pc = "done",
                                !.abb = deep_merge(mrg.ab, mrg.override)])

NextMerge ==
    \/ MergeAB
    \/ MergeBA
    \/ MergeAgain

SpecMerge == InitMerge /\ [][NextMerge]_vars

\* Python's == on trees: mappings compare by their items whatever the
\* insertion order, lists element by element
RECURSIVE Equal(_, _)
Equal(a, b) ==
    IF a.t # b.t THEN FALSE
    ELSE CASE a.t = "map" ->
                /\ DOMAIN a.m = DOMAIN b.m
                /\ \A k \in DOMAIN a.m : Equal(a.m[k], b.m[k])
           [] a.t = "seq" ->
                /\ Len(a.s) = Len(b.s)
                /\ \A i \in 1..Len(a.s) : Equal(a.s[i], b.s[i])
           [] OTHER -> a = b

\* C12: where the base and the override both hold a list under a key, the
\* merged tree holds the override's list under it, whatever the lists hold.
C12_ListsReplaced ==
    mrg.pc # "start" =>
        \A k \in DOMAIN mrg.base.m \cap DOMAIN mrg.override.m :
            (IsList(mrg.base.m[k]) /\ IsList(mrg.override.m[k]))
              => mrg.ab.m[k] = mrg.override.m[k]

\* The base holds a two-element list with a mapping in it, the override a
\* one-element list with another mapping, and the result is the override's
C12_Witness ==
    /\ mrg.pc = "done"
    /\ mrg.base = Section("x", Lst(<<Str("1"), Section("x", Str("1"))>>))
    /\ mrg.override = Section("x", Lst(<<Section("x", Str("2"))>>))
    /\ mrg.ab = mrg.override

\* The two trees give different values to a path they both define: under
\* the mappings they share, a key that one maps to something the other does
\* not map it to, unless both map it to mappings.
RECURSIVE Conflict(_, _)
Conflict(a, b) ==
    IF IsDict(a) /\ IsDict(b)
    THEN \E k \in DOMAIN a.m \cap DOMAIN b.m : Conflict(a.m[k], b.m[k])
    ELSE ~Equal(a, b)

\* C13 as stated: whenever the leaves of A and B are not the same, merging B
\* into A and merging A into B give different trees.
C13_NeverCommutes ==
    (mrg.pc = "done"
       /\ LeavesAt(mrg.base, <<>>) # LeavesAt(mrg.override, <<>>))
      => ~Equal(mrg.ab, mrg.ba)

\* C13, amended: merging B into A and merging A into B give different trees
\* exactly when A and B give different values to a path they both define;
\* trees that differ only in paths one of them lacks merge to the same tree
\* either way.
C13_CommutesUnlessConflict ==
    mrg.pc = "done" =>
        (Conflict(mrg.base, mrg.override) <=> ~Equal(mrg.ab, mrg.ba))

\* Both trees define x.x, with different values, and the two merges differ
C13_Witness ==
    /\ mrg.pc = "done"
    /\ mrg.base = Section("x", Section("x", Str("1")))
    /\ mrg.override = Map(<< <<"x", Section("x", Str("2"))>>, <<"y", Str("1")>> >>)
    /\ GetPath(mrg.ab, <<"x", "x">>) = Str("2")
    /\ GetPath(mrg.ba, <<"x", "x">>) = Str("1")

\* C14: merging the override a second time into the merged tree changes
\* nothing, whatever the two trees are.
C14_Idempotent == mrg.pc = "done" => Equal(mrg.abb, mrg.ab)

\* The override replaces part of a section of the base and adds a list; the
\* merged tree is neither of the two, and the second merge leaves it as is
C14_Witness ==
    /\ mrg.pc = "done"
    /\ mrg.base = Section("x", Map(<< <<"x", Str("1")>>, <<"y", Str("1")>> >>))
    /\ mrg.override = Map(<< <<"x", Section("y", Str("2"))>>, <<"y", Str("1")>> >>)
    /\ ~Equal(mrg.ab, mrg.base) /\ ~Equal(mrg.ab, mrg.override)
    /\ mrg.abb = mrg.ab

----------------------------------------------------------------------------
(***************************************************************************)
(* LazySecret on its own: one secret, the APP_SECRET_KEY of the            *)
(* environment, and calls of get() and zeroize() while the environment     *)
(* changes between them.                                                   *)
(***************************************************************************)

\* How many times get() is called on the secret
MaxGets == 2

\* os.getenv("APP_SECRET_KEY"): unset, empty, a key of Fernet, or a string
\* that is no Fernet key
EnvKeys == {None, Str(""), Str("k1"), Str("k2"), Str("short")}

InitSecret ==
    /\ sec \in {[env |-> key, secret |-> LazySecret(Enc(token)),
                 out |-> None, calls |-> 0, op |-> "new", did |-> {}] :
                   key \in EnvKeys, token \in Tokens}
    /\ mrg = <<>>
    /\ fs = <<>>
    /\ ldr = NewLoader(CfgDir, "dev")
    /\ CacheIdle

SecretStep(next) ==
    /\ sec' = next
    /\ UNCHANGED <<mrg, fs, ldr, cache, lock, thr, heap, hist>>

\* A call on the secret: what it returned or raised is kept in `out`, what
\* it did in `did`
CallStep(op, r) ==
    /\ sec.calls < MaxGets
    /\ SecretStep([sec EXCEPT !.secret = r.secret, !.out = r.out,
                              !.did = r.did, !.op = op,
                              !.calls = sec.calls + 1])

\* secret.get()
Get == CallStep("get", get(sec.secret, sec.env))

\* str(secret), f"{secret}", print(secret)
ToStr == CallStep("str", str(sec.secret, sec.env))

\* sprigconfig dump without and with --secrets
Dump ==
    \E reveal_secrets \in BOOLEAN :
        CallStep(IF reveal_secrets THEN "reveal" ELSE "dump",
                 extract_data_for_dump(sec.secret, sec.env, reveal_secrets))

\* secret.zeroize()
Zeroize ==
    /\ sec.secret.decrypted_value # None
    /\ SecretStep([sec EXCEPT !.secret = zeroize(sec.secret),
                              !.op = "zeroize", !.did = {}, !.out = None])

\* The environment sets, changes or unsets APP_SECRET_KEY
Setenv ==
    \E key \in EnvKeys \ {sec.env} : SecretStep([sec EXCEPT !.env = key])

NextSecret == Get \/ ToStr \/ Dump \/ Zeroize \/ Setenv

SpecSecret == InitSecret /\ [][NextSecret]_vars

\* Fernet under this key authenticates the token
Opens(key, token) ==
    key \in FernetKeys /\ token \in DOMAIN Made /\ Made[token].key = key

\* C20: a get() that fails fails with ConfigLoadError and with no other
\* exception, and a get() on a secret that holds no plaintext yet fails
\* that way both when APP_SECRET_KEY is unset or empty and when Fernet under
\* the key of the environment does not authenticate the token (another key,
\* a forged or damaged token).
C20_OnlyConfigLoadError ==
    [][(sec'.calls = sec.calls + 1 /\ sec'.op = "get") =>
         /\ IsExc(sec'.out) => sec'.out = Exc("ConfigLoadError")
         /\ (/\ sec.secret.decrypted_value = None
             /\ \/ sec.env = None
                \/ ~Opens(sec.env.v, sec.secret.encrypted_value))
              => sec'.out = Exc("ConfigLoadError")]_vars

\* A call of get() or __str__ on the secret
Reading == sec'.calls = sec.calls + 1 /\ sec'.op \in {"get", "str"}

\* C21: a get() or __str__ on a secret that holds its plaintext returns that
\* plaintext without reading APP_SECRET_KEY and without running Fernet,
\* whatever the environment holds by then, and leaves the secret as it is; a
\* call that decrypts leaves the plaintext it returns in the secret, so that
\* between two zeroize() calls decryption succeeds at most once; and
\* zeroize() puts the secret back as it was constructed.
C21_DecryptsOnce ==
    [][/\ (Reading /\ sec.secret.decrypted_value # None)
            => /\ sec'.did = {}
               /\ sec'.out = sec.secret.decrypted_value
               /\ sec'.secret = sec.secret
       /\ (Reading /\ "decrypt" \in sec'.did /\ ~IsExc(sec'.out))
            => /\ sec.secret.decrypted_value = None
               /\ sec'.secret.decrypted_value = sec'.out
       /\ sec'.op = "zeroize"
            => sec'.secret =
                  LazySecret(Enc(sec.secret.encrypted_value))]_vars

\* The second call on a secret decrypted under k1 comes after the key was
\* taken out of the environment, and still returns 'hello'
C21_Witness ==
    /\ sec.calls = 2
    /\ sec.op \in {"get", "str"}
    /\ sec.env = None
    /\ sec.did = {}
    /\ sec.out = Str("hello")
    /\ sec.secret.decrypted_value = Str("hello")

\* C22: a conversion of the secret to a string and a dump that was not
\* asked to reveal secrets read no key, run no decryption, leave the secret
\* without plaintext if it had none, and give a redaction marker.
C22_NoDecryptionUnlessAsked ==
    [][(sec'.calls = sec.calls + 1 /\ sec'.op \in {"str", "dump"})
         => /\ sec'.did = {}
            /\ sec'.secret = sec.secret
            /\ sec'.out \in {Str("<LazySecret>"),
                             Str("ENC(**REDACTED**)")}]_vars

----------------------------------------------------------------------------
(* load() called more than once on one ConfigLoader.  __init__ alone sets   *)
(* _merge_trace, _import_trace, _seen_imports and _order (lines 71-80);     *)
(* load() never resets them, so each call starts from what the call before  *)
(* left in them.  hist holds the outcome of every call that ended.          *)

MaxLoads == 2

\* application.yml for the repeated loads: the documents with the point of
\* interest at the top level, and those writing into the loader's namespaces
ReloadBaseDocs == {Missing} \cup BaseCores \cup UserDocs

ReloadSystems ==
    {MkFs(<< <<fBase, base>>, <<fDev, dev>>, <<fA, a>>, <<fB, b>>,
             <<fCommon, Map(<< <<"server", Map(<< <<"port", Str("8080")>> >>)>> >>)>>,
             <<fEtc, Map(<< <<"root", Str("x")>> >>)>> >>) :
        base \in ReloadBaseDocs, dev \in DevDocs, a \in ADocs, b \in BDocs}

InitReload ==
    /\ fs \in ReloadSystems
    /\ \E profile \in Profiles :
          /\ profile # "dev" => (fDev \notin DOMAIN fs /\ fB \notin DOMAIN fs)
          /\ ldr = NewLoader(CfgDir, profile)
    /\ CacheIdle
    /\ BenchIdle

\* The previous call has returned or raised, and load() is called again on
\* the same object: the locals of load() are new, the fields of the object
\* are as the previous call left them
LoadAgain ==
    /\ Final(ldr)
    /\ Len(hist) < MaxLoads - 1
    /\ hist' = Append(hist, [ok |-> Returned,
                             tree |-> IF Returned THEN ldr.merged ELSE None,
                             err |-> ldr.err,
                             imports |-> Cardinality(FromDirectives(ldr.import_trace))])
    /\ ldr' = [NewLoader(ldr.config_dir, ldr.profile) EXCEPT
                  !.merge_trace = ldr.merge_trace,
                  !.import_trace = ldr.import_trace,
                  !.seen_imports = ldr.seen_imports,
                  !.order = ldr.order]
    /\ UNCHANGED <<fs, cache, lock, thr, heap, mrg, sec>>

NextReload == Next \/ LoadAgain

SpecReload == InitReload /\ [][NextReload]_vars

\* C26: when load() has returned a tree built from at least one import and
\* is called again on the same ConfigLoader over the same files, the second
\* call returns too, and its tree, with the sources and the import trace
\* in it, equals the first one's.
C26_FreshPerLoad ==
    (Len(hist) = 1 /\ hist[1].ok /\ hist[1].imports > 0 /\ Final(ldr)) =>
        /\ Returned
        /\ Equal(ldr.merged, hist[1].tree)

----------------------------------------------------------------------------
(* deep_merge on dicts as Python holds them: objects with an identity.  A   *)
(* store of objects is a sequence of mappings, the address of an object     *)
(* its place in it; a mapping's value is a scalar or Ptr(a), the object at  *)
(* address a.  `base[key] = value` stores the value itself: for a dict,     *)
(* the reference to the override's own object.                              *)

Ptr(a) == [t |-> "ptr", a |-> a]
IsPtr(v) == v.t = "ptr"

RECURSIVE Alloc(_, _), AllocItems(_, _, _, _)
\* The store H with the objects of the dict literal d appended, d's own
\* object last
Alloc(H, d) == AllocItems(H, d, 1, EmptyMap)
AllocItems(H, d, i, obj) ==
    IF i > Len(d.ks) THEN Append(H, obj)
    ELSE LET k == d.ks[i]
             v == d.m[k]
         IN IF IsDict(v)
            THEN LET H1 == Alloc(H, v)
                 IN AllocItems(H1, d, i + 1, Put(obj, k, Ptr(Len(H1))))
            ELSE AllocItems(H, d, i + 1, Put(obj, k, v))

RECURSIVE TreeAt(_, _)
\* The tree whose root is the object at address a
TreeAt(H, a) ==
    [t |-> "map", ks |-> H[a].ks,
     m |-> [k \in DOMAIN H[a].m |->
               IF IsPtr(H[a].m[k]) THEN TreeAt(H, H[a].m[k].a) ELSE H[a].m[k]]]

RECURSIVE Objects(_, _)
\* The addresses of the objects of the tree at address a
Objects(H, a) ==
    {a} \cup UNION {Objects(H, H[a].m[k].a) :
                      k \in {x \in DOMAIN H[a].m : IsPtr(H[a].m[x])}}

RECURSIVE deep_merge_copying(_, _, _), merge_items_copying(_, _, _, _)
\* A deep_merge that stores a copy of each mapping it takes from override
deep_merge_copying(H, base, override) ==
    merge_items_copying(H, base, override, 1)
merge_items_copying(H, base, override, i) ==
    IF i > Len(H[override].ks) THEN H
    ELSE LET key == H[override].ks[i]
             value == H[override].m[key]
         IN IF HasKey(H[base], key) /\ IsPtr(H[base].m[key]) /\ IsPtr(value)
            THEN merge_items_copying(
                     deep_merge_copying(H, H[base].m[key].a, value.a),
                     base, override, i + 1)
            ELSE IF IsPtr(value)
                 THEN LET H1 == Alloc(H, TreeAt(H, value.a))
                      IN merge_items_copying(
                             [H1 EXCEPT ![base] = Put(@, key, Ptr(Len(H1)))],
                             base, override, i + 1)
                 ELSE merge_items_copying([H EXCEPT ![base] = Put(@, key, value)],
                                          base, override, i + 1)

RECURSIVE deep_merge_in_place(_, _, _), merge_items_in_place(_, _, _, _)
\* loader.deep_merge(base, override) on the store H: lines 19-35, item i of
\* override.items() onwards
deep_merge_in_place(H, base, override) ==
    merge_items_in_place(H, base, override, 1)
merge_items_in_place(H, base, override, i) ==
    IF i > Len(H[override].ks) THEN H
    ELSE LET key == H[override].ks[i]
             value == H[override].m[key]
         IN IF HasKey(H[base], key) /\ IsPtr(H[base].m[key]) /\ IsPtr(value)
            THEN merge_items_in_place(
                     deep_merge_in_place(H, H[base].m[key].a, value.a),
                     base, override, i + 1)
            ELSE merge_items_in_place([H EXCEPT ![base] = Put(@, key, value)],
                                      base, override, i + 1)

\* The three dict literals: base, override and a third tree
AliasBases ==
    {EmptyMap} \cup {Section(k, v) : k \in {"x", "y"}, v \in Scalars}
      \cup {Section("x", d) : d \in FlatDicts}
AliasOverrides ==
    {Section("x", v) : v \in Scalars}
      \cup {Section("x", d) : d \in FlatDicts}
      \cup {Section("x", Section("y", Section("x", v))) : v \in Scalars}
AliasThirds ==
    {EmptyMap} \cup {Section("x", d) : d \in FlatDicts \ {EmptyMap}}
      \cup {Section("x", Section("y", Section("y", v))) : v \in Scalars}

\* The store after the three literals were evaluated, with their addresses
Literals(a, b, c) ==
    LET H1 == Alloc(<<>>, a)
        H2 == Alloc(H1, b)
        H3 == Alloc(H2, c)
    IN [pc |-> "start", objs |-> H3, base |-> Len(H1), override |-> Len(H2),
        third |-> Len(H3), was |-> b]

InitAlias ==
    /\ mrg \in {Literals(a, b, c) :
                  a \in AliasBases, b \in AliasOverrides, c \in AliasThirds}
    /\ sec = <<>>
    /\ fs = <<>>
    /\ ldr = NewLoader(CfgDir, "dev")
    /\ CacheIdle

\* deep_merge(base, override)
MergeOverride ==
    MergeStep("start",
              [mrg EXCEPT !.pc = "merged",
                          !.objs = deep_merge_in_place(mrg.objs, mrg.base,
                                                       mrg.override)])
\* deep_merge(base, third), later
MergeThird ==
    MergeStep("merged",
              [mrg EXCEPT !.pc = "done",
                          !.objs = deep_merge_in_place(mrg.objs, mrg.base,
                                                       mrg.third)])

NextAlias == MergeOverride \/ MergeThird

SpecAlias == InitAlias /\ [][NextAlias]_vars

\* C30 as stated: after deep_merge(base, override), and after a later
\* deep_merge of a third tree into the same base, override equals what it
\* was, and base and override have no object in common.
C30_OverrideNeverTouched ==
    mrg.pc \in {"merged", "done"} =>
        /\ Equal(TreeAt(mrg.objs, mrg.override), mrg.was)
        /\ Objects(mrg.objs, mrg.base) \cap Objects(mrg.objs, mrg.override) = {}

\* C30, amended: deep_merge(base, override) leaves override equal to what it
\* was and makes base hold, under each key of override where base had no
\* mapping to merge into, the very object override holds there; the later
\* merge of a third tree into base changes no object but those of base,
\* which now include these objects of override.
C30_OverrideSharedNotCopied ==
    /\ mrg.pc = "merged" =>
          Equal(TreeAt(mrg.objs, mrg.override), mrg.was)
    /\ [][MergeOverride =>
            \A key \in DOMAIN mrg.objs[mrg.override].m :
               LET value == mrg.objs[mrg.override].m[key]
               IN (IsPtr(value) /\ ~(/\ HasKey(mrg.objs[mrg.base], key)
                                     /\ IsPtr(mrg.objs[mrg.base].m[key])))
                    => mrg'.objs[mrg.base].m[key] = value]_vars
    /\ [][MergeThird =>
            \A a \in 1..Len(mrg.objs) :
               a \notin Objects(mrg.objs, mrg.base)
                  => mrg'.objs[a] = mrg.objs[a]]_vars

\* base = {}, override = {x: {y: 1}}, third = {x: {x: 2}}: after both
\* merges override is {x: {y: 1, x: 2}}
C30_Witness ==
    /\ mrg.pc = "done"
    /\ mrg.was = Section("x", Section("y", Str("1")))
    /\ Equal(TreeAt(mrg.objs, mrg.override),
             Section("x", Map(<< <<"y", Str("1")>>, <<"x", Str("2")>> >>)))
    /\ mrg.objs[mrg.base].m["x"] = mrg.objs[mrg.override].m["x"]
====
